---- MODULE Spec2Model ----
(***************************************************************************)
(* trafix-codec: the FIX message codec.                                    *)
(*                                                                         *)
(* The model holds the byte-level lexer, the integer parser, the checksum  *)
(* digest, the field model, the message builder, the encoder and the       *)
(* decoder.  A byte is a number 0..255 and a byte string is a sequence of  *)
(* bytes; the lexer cursor counts the bytes already consumed, as in the    *)
(* source (the byte under the cursor is bytes[cursor + 1] here).           *)
(***************************************************************************)
EXTENDS Integers, Sequences, FiniteSets, TLC

(***************************************************************************)
(* Bytes                                                                   *)
(***************************************************************************)
SOH == 1
EQUALS == 61
MINUS == 45
ZERO == 48
NINE == 57

Digit(d) == ZERO + d

\* b"FIX.4.4"
FIX44_BYTES == <<70, 73, 88, 46, 52, 46, 52>>

is_ascii_digit(byte) == byte >= ZERO /\ byte <= NINE

\* input.get(start..end) with 0-based start (inclusive) and end (exclusive)
Slice(input, start, end) == SubSeq(input, start + 1, end)

(***************************************************************************)
(* Integer ranges of the targets of parse_fix_int.  TLC's integers are 32  *)
(* bits wide, so a value of a 64-bit type (u64, usize) is held as its      *)
(* decimal digits, most significant first and without leading zeros:       *)
(* 0 is <<0>>, 2^64 - 1 is the twenty digits of U64_MAX.  The narrower     *)
(* types are TLC integers.                                                 *)
(***************************************************************************)
U8_MAX == 255
I8_MIN == -128
I8_MAX == 127
U16_MAX == 65535
I16_MIN == -32768
I16_MAX == 32767
U64_MAX == <<1, 8, 4, 4, 6, 7, 4, 4, 0, 7, 3, 7, 0, 9, 5, 5, 1, 6, 1, 5>>

\* the digits of a natural number that TLC can hold
RECURSIVE U64(_)
U64(n) == IF n < 10 THEN <<n>> ELSE Append(U64(n \div 10), n % 10)

\* digits without their leading zeros
RECURSIVE u64_canonical(_)
u64_canonical(digits) ==
    IF Len(digits) > 1 /\ Head(digits) = 0 THEN u64_canonical(Tail(digits))
    ELSE digits

\* a <= b, of two numbers given by their digits
u64_le(a, b) ==
    \/ Len(a) < Len(b)
    \/ /\ Len(a) = Len(b)
       /\ \/ a = b
          \/ \E i \in 1..Len(a) :
               /\ a[i] < b[i]
               /\ \A j \in 1..(i - 1) : a[j] = b[j]

\* digits with zeros in front, n digits in all
RECURSIVE u64_padded(_, _)
u64_padded(digits, n) ==
    IF Len(digits) >= n THEN digits ELSE u64_padded(<<0>> \o digits, n)

\* the digits 1..i of a + b + carry, column by column from the right
RECURSIVE u64_add_columns(_, _, _, _)
u64_add_columns(a, b, i, carry) ==
    IF i = 0 THEN <<carry>>
    ELSE LET column == a[i] + b[i] + carry
         IN Append(u64_add_columns(a, b, i - 1, column \div 10), column % 10)

\* a + b, unbounded
u64_add(a, b) ==
    LET n == IF Len(a) > Len(b) THEN Len(a) ELSE Len(b)
    IN u64_canonical(u64_add_columns(u64_padded(a, n), u64_padded(b, n), n, 0))

\* the digits 1..i of a - b - borrow, column by column from the right
RECURSIVE u64_sub_columns(_, _, _, _)
u64_sub_columns(a, b, i, borrow) ==
    IF i = 0 THEN <<>>
    ELSE LET column == a[i] - b[i] - borrow
         IN Append(u64_sub_columns(a, b, i - 1, IF column < 0 THEN 1 ELSE 0),
                   IF column < 0 THEN column + 10 ELSE column)

\* a - b, for b <= a
u64_sub(a, b) ==
    u64_canonical(u64_sub_columns(a, u64_padded(b, Len(a)), Len(a), 0))

\* 10 * a, unbounded
u64_mul10(a) == IF a = <<0>> THEN a ELSE Append(a, 0)

\* n modulo 2^64, for a TLC integer n: what wrapping usize arithmetic leaves of
\* a difference that went below zero
u64_wrapping(n) ==
    IF n >= 0 THEN U64(n) ELSE u64_sub(U64_MAX, U64(-n - 1))

(***************************************************************************)
(* decoder/num.rs: parse_fix_int.                                          *)
(* The result is [ok, value, err]; err is "InvalidDigit" or "Overflow".    *)
(***************************************************************************)
ParseOk(v) == [ok |-> TRUE, value |-> v, err |-> "None"]
ParseErr(e) == [ok |-> FALSE, value |-> 0, err |-> e]
\* the same for a 64-bit target, whose values are digits
ParseErr64(e) == [ok |-> FALSE, value |-> U64(0), err |-> e]

\* value.checked_mul(10): TRUE when the product is outside lo..hi
mul10_overflows(value, lo, hi) == value > hi \div 10 \/ value < -((-lo) \div 10)

\* a plausible slip: saturating arithmetic, a value out of range is held at the
\* limit and parsing goes on
RECURSIVE parse_digits_saturating(_, _, _, _, _, _)
parse_digits_saturating(bytes, i, value, is_negative, lo, hi) ==
    IF i > Len(bytes) THEN ParseOk(value)
    ELSE IF ~is_ascii_digit(bytes[i]) THEN ParseErr("InvalidDigit")
    ELSE LET to_add == bytes[i] - ZERO
             next == IF is_negative THEN value * 10 - to_add
                                    ELSE value * 10 + to_add
             held == IF next < lo THEN lo ELSE IF next > hi THEN hi ELSE next
         IN parse_digits_saturating(bytes, i + 1, held, is_negative, lo, hi)

\* the for loop of parse_fix_int, from byte i (1-based) on
RECURSIVE parse_digits(_, _, _, _, _, _)
parse_digits(bytes, i, value, is_negative, lo, hi) ==
    IF i > Len(bytes) THEN ParseOk(value)
    ELSE IF mul10_overflows(value, lo, hi) THEN ParseErr("Overflow")
    ELSE IF ~is_ascii_digit(bytes[i]) THEN ParseErr("InvalidDigit")
    ELSE LET to_add == bytes[i] - ZERO
             next == IF is_negative THEN value * 10 - to_add
                                    ELSE value * 10 + to_add
         IN IF next < lo \/ next > hi THEN ParseErr("Overflow")
            ELSE parse_digits(bytes, i + 1, next, is_negative, lo, hi)

\* the for loop of parse_fix_int for the 64-bit unsigned targets, from byte i
\* (1-based) on; value is held by its digits
RECURSIVE parse_digits_64(_, _, _)
parse_digits_64(bytes, i, value) ==
    IF i > Len(bytes) THEN ParseOk(value)
    ELSE IF ~u64_le(u64_mul10(value), U64_MAX) THEN ParseErr64("Overflow")
    ELSE IF ~is_ascii_digit(bytes[i]) THEN ParseErr64("InvalidDigit")
    ELSE LET to_add == U64(bytes[i] - ZERO)
             next == u64_add(u64_mul10(value), to_add)
         IN IF ~u64_le(next, U64_MAX) THEN ParseErr64("Overflow")
            ELSE parse_digits_64(bytes, i + 1, next)

\* parse_fix_int of impl_for!(u64, false) and impl_for!(usize, false)
parse_fix_int_64(bytes) ==
    IF Len(bytes) > 0 /\ bytes[1] = MINUS THEN ParseErr64("Overflow")
    ELSE parse_digits_64(bytes, 1, U64(0))

\* a plausible slip: on an unsigned target the '-' is read as one more byte
parse_fix_int_minus_as_byte(bytes, is_signed, lo, hi) ==
    IF Len(bytes) > 0 /\ bytes[1] = MINUS /\ is_signed
    THEN parse_digits(Tail(bytes), 1, 0, TRUE, lo, hi)
    ELSE parse_digits(bytes, 1, 0, FALSE, lo, hi)

parse_fix_int(bytes, is_signed, lo, hi) ==
    IF Len(bytes) > 0 /\ bytes[1] = MINUS
    THEN IF is_signed
         THEN parse_digits(Tail(bytes), 1, 0, TRUE, lo, hi)
         ELSE ParseErr("Overflow")
    ELSE parse_digits(bytes, 1, 0, FALSE, lo, hi)

parse_u8(bytes) == parse_fix_int(bytes, FALSE, 0, U8_MAX)
parse_i8(bytes) == parse_fix_int(bytes, TRUE, I8_MIN, I8_MAX)
parse_u16(bytes) == parse_fix_int(bytes, FALSE, 0, U16_MAX)
parse_i16(bytes) == parse_fix_int(bytes, TRUE, I16_MIN, I16_MAX)
parse_u64(bytes) == parse_fix_int_64(bytes)
parse_usize(bytes) == parse_fix_int_64(bytes)

(***************************************************************************)
(* digest.rs: Digest.                                                      *)
(***************************************************************************)
\* a plausible slip: saturating instead of wrapping addition
saturating_add(a, b) == IF a + b > 255 THEN 255 ELSE a + b

wrapping_add(a, b) == (a + b) % 256

\* the for loop of Digest::push over input[lo..hi] (1-based, inclusive): the
\* bytes are folded into the running checksum from first to last.  The range is
\* walked as its first half, then its second half, and the checksum after the
\* first half is tested to be a u8 before the second half starts: both only
\* keep TLC's evaluation shallow on long inputs
RECURSIVE push_range(_, _, _, _)
push_range(checksum, input, lo, hi) ==
    IF lo > hi THEN checksum
    ELSE IF lo = hi THEN wrapping_add(checksum, input[lo])
    ELSE LET half == push_range(checksum, input, lo, (lo + hi) \div 2)
         IN IF half \in 0..255
            THEN push_range(half, input, (lo + hi) \div 2 + 1, hi)
            ELSE half

\* Digest::push
push(checksum, input) == push_range(checksum, input, 1, Len(input))

\* Digest::default() then one push then checksum()
digest_of(input) == push(0, input)

(***************************************************************************)
(* format!("{n}") of an unsigned integer: decimal, no padding.             *)
(***************************************************************************)
RECURSIVE format_uint(_)
format_uint(n) ==
    IF n < 10 THEN <<Digit(n)>>
    ELSE Append(format_uint(n \div 10), Digit(n % 10))

\* the same of a u64, which is held by its digits
format_u64(n) == [i \in 1..Len(n) |-> Digit(n[i])]

(***************************************************************************)
(* decoder/decode.rs: Lexer.                                               *)
(* A lexer result is [ok, tag, value, err, but_got, cursor]: cursor is the *)
(* lexer's cursor after the call, whether it succeeded or failed.          *)
(***************************************************************************)
LexTag(tag, cursor) ==
    [ok |-> TRUE, tag |-> tag, value |-> <<>>, err |-> "None", but_got |-> -1,
     cursor |-> cursor]
LexValue(value, cursor) ==
    [ok |-> TRUE, tag |-> -1, value |-> value, err |-> "None", but_got |-> -1,
     cursor |-> cursor]
LexErr(err, but_got, cursor) ==
    [ok |-> FALSE, tag |-> -1, value |-> <<>>, err |-> err, but_got |-> but_got,
     cursor |-> cursor]

\* a plausible slip: the cursor moves on at the end of input as well
skip_advancing_at_eoi(input, cursor, expected) ==
    IF cursor < Len(input)
    THEN IF input[cursor + 1] # expected
         THEN LexErr("Unexpected", input[cursor + 1], cursor)
         ELSE LexValue(<<>>, cursor + 1)
    ELSE LexErr("EOI", -1, cursor + 1)

\* Lexer::skip
skip(input, cursor, expected) ==
    IF cursor < Len(input)
    THEN IF input[cursor + 1] # expected
         THEN LexErr("Unexpected", input[cursor + 1], cursor)
         ELSE LexValue(<<>>, cursor + 1)
    ELSE LexErr("EOI", -1, cursor)

\* a plausible slip: the end of input is not let through
skip_or_eoi_strict(input, cursor, expected) == skip(input, cursor, expected)

\* Lexer::skip_or_eoi
skip_or_eoi(input, cursor, expected) ==
    IF cursor < Len(input) THEN skip(input, cursor, expected)
    ELSE LexValue(<<>>, cursor)

\* the while loop of Lexer::tag: the cursor after the run of ASCII digits
RECURSIVE skip_digits(_, _)
skip_digits(input, cursor) ==
    IF cursor < Len(input) /\ is_ascii_digit(input[cursor + 1])
    THEN skip_digits(input, cursor + 1)
    ELSE cursor

\* the while loop of Lexer::value: the cursor at the next SOH or at end of input
RECURSIVE skip_to_soh(_, _)
skip_to_soh(input, cursor) ==
    IF cursor < Len(input) /\ input[cursor + 1] # SOH
    THEN skip_to_soh(input, cursor + 1)
    ELSE cursor

\* a plausible slip: the digits are parsed before the '=' is looked for
lexer_tag_parsing_first(input, cursor) ==
    LET start == cursor
        end == skip_digits(input, cursor)
        skipped == skip(input, end, EQUALS)
        parsed == parse_u16(Slice(input, start, end))
    IN IF ~parsed.ok THEN LexErr("MalformedTag", -1, end)
       ELSE IF ~skipped.ok THEN skipped
       ELSE LexTag(parsed.value, skipped.cursor)

\* a plausible slip: the end of input is let through after the digits, as
\* value() lets it through
lexer_tag_ending_quietly(input, cursor) ==
    LET start == cursor
        end == skip_digits(input, cursor)
        skipped == skip_or_eoi(input, end, EQUALS)
        parsed == parse_u16(Slice(input, start, end))
    IN IF ~skipped.ok THEN skipped
       ELSE IF parsed.ok THEN LexTag(parsed.value, skipped.cursor)
       ELSE LexErr("MalformedTag", -1, skipped.cursor)

\* Lexer::tag
lexer_tag(input, cursor) ==
    LET start == cursor
        end == skip_digits(input, cursor)
        skipped == skip(input, end, EQUALS)
        parsed == parse_u16(Slice(input, start, end))
    IN IF ~skipped.ok THEN skipped
       ELSE IF parsed.ok THEN LexTag(parsed.value, skipped.cursor)
       ELSE LexErr("MalformedTag", -1, skipped.cursor)

\* Lexer::value
lexer_value(input, cursor) ==
    LET start == cursor
        end == skip_to_soh(input, cursor)
        skipped == skip_or_eoi(input, end, SOH)
    IN IF ~skipped.ok THEN skipped
       ELSE LexValue(Slice(input, start, end), skipped.cursor)

(***************************************************************************)
(* message/field/value: BeginString, MsgType.                              *)
(***************************************************************************)
BeginString_tag == 8
BodyLength_tag == 9
MsgType_tag == 35
Checksum_tag == 10

MsgTypes ==
    {"Logon", "Heartbeat", "TestRequest", "ResendRequest", "Reject",
     "SequenceReset", "Logout"}

\* From<BeginString> for &[u8]
begin_string_bytes(v) == FIX44_BYTES

\* From<MsgType> for &[u8]
msg_type_bytes(t) ==
    CASE t = "Logon" -> <<65>>
      [] t = "Heartbeat" -> <<Digit(0)>>
      [] t = "TestRequest" -> <<Digit(1)>>
      [] t = "ResendRequest" -> <<Digit(2)>>
      [] t = "Reject" -> <<Digit(3)>>
      [] t = "SequenceReset" -> <<Digit(4)>>
      [] t = "Logout" -> <<Digit(5)>>

\* BeginString::from_fix_bytes: [ok, value]
begin_string_from_fix_bytes(bytes) ==
    IF bytes = FIX44_BYTES THEN [ok |-> TRUE, value |-> "FIX44"]
    ELSE [ok |-> FALSE, value |-> "Unsupported"]

\* MsgType::from_fix_bytes: [ok, value]
msg_type_from_fix_bytes(bytes) ==
    IF \E t \in MsgTypes : msg_type_bytes(t) = bytes
    THEN [ok |-> TRUE, value |-> CHOOSE t \in MsgTypes : msg_type_bytes(t) = bytes]
    ELSE [ok |-> FALSE, value |-> "Unsupported"]

(***************************************************************************)
(* message/field/mod.rs: Field.                                            *)
(* A field is [variant, tag, num, value]: num is the u64 of MsgSeqNum (its  *)
(* digits, <<0>> in the other variants),                                    *)
(* value the bytes of the byte-string variants and of Custom, tag the      *)
(* stored tag of Custom (0 in the typed variants, which store none).       *)
(***************************************************************************)
MsgSeqNum(n) == [variant |-> "MsgSeqNum", tag |-> 0, num |-> n, value |-> <<>>]
SenderCompID(v) ==
    [variant |-> "SenderCompID", tag |-> 0, num |-> U64(0), value |-> v]
SendingTime(v) ==
    [variant |-> "SendingTime", tag |-> 0, num |-> U64(0), value |-> v]
TargetCompID(v) ==
    [variant |-> "TargetCompID", tag |-> 0, num |-> U64(0), value |-> v]
Custom(t, v) == [variant |-> "Custom", tag |-> t, num |-> U64(0), value |-> v]

\* a plausible slip: tag 35 is taken for a well-known tag and its value is
\* converted to a MsgType, which fails for the other byte strings
try_new_converting_msg_type(tag, bytes) ==
    CASE tag = 34 ->
           LET parsed == parse_u64(bytes)
           IN IF parsed.ok
              THEN [ok |-> TRUE, field |-> MsgSeqNum(parsed.value), err |-> "None"]
              ELSE [ok |-> FALSE, field |-> Custom(0, <<>>), err |-> parsed.err]
      [] tag = 35 ->
           IF msg_type_from_fix_bytes(bytes).ok
           THEN [ok |-> TRUE, field |-> Custom(tag, bytes), err |-> "None"]
           ELSE [ok |-> FALSE, field |-> Custom(0, <<>>), err |-> "Unsupported"]
      [] tag = 49 -> [ok |-> TRUE, field |-> SenderCompID(bytes), err |-> "None"]
      [] tag = 52 -> [ok |-> TRUE, field |-> SendingTime(bytes), err |-> "None"]
      [] tag = 56 -> [ok |-> TRUE, field |-> TargetCompID(bytes), err |-> "None"]
      [] OTHER -> [ok |-> TRUE, field |-> Custom(tag, bytes), err |-> "None"]

\* Field::try_new: [ok, field, err]
try_new(tag, bytes) ==
    CASE tag = 34 ->
           LET parsed == parse_u64(bytes)
           IN IF parsed.ok
              THEN [ok |-> TRUE, field |-> MsgSeqNum(parsed.value), err |-> "None"]
              ELSE [ok |-> FALSE, field |-> Custom(0, <<>>), err |-> parsed.err]
      [] tag = 49 -> [ok |-> TRUE, field |-> SenderCompID(bytes), err |-> "None"]
      [] tag = 52 -> [ok |-> TRUE, field |-> SendingTime(bytes), err |-> "None"]
      [] tag = 56 -> [ok |-> TRUE, field |-> TargetCompID(bytes), err |-> "None"]
      [] OTHER -> [ok |-> TRUE, field |-> Custom(tag, bytes), err |-> "None"]

\* Field::tag
field_tag(f) ==
    CASE f.variant = "MsgSeqNum" -> 34
      [] f.variant = "SenderCompID" -> 49
      [] f.variant = "SendingTime" -> 52
      [] f.variant = "TargetCompID" -> 56
      [] OTHER -> f.tag

\* Field::value
field_value(f) ==
    IF f.variant = "MsgSeqNum" THEN format_u64(f.num) ELSE f.value

\* a plausible slip: the field ends itself with an SOH
field_encode_with_soh(f) ==
    format_uint(field_tag(f)) \o <<EQUALS>> \o field_value(f) \o <<SOH>>

\* Field::encode
field_encode(f) == format_uint(field_tag(f)) \o <<EQUALS>> \o field_value(f)

(***************************************************************************)
(* message/mod.rs: Header, Body, Message, MessageBuilder.                  *)
(* A builder is [inner, is_init]: is_init is the IS_INIT type parameter.   *)
(***************************************************************************)
Message_builder(begin_string, msg_type) ==
    [inner |-> [header |-> [begin_string |-> begin_string,
                            msg_type |-> msg_type,
                            fields |-> <<>>],
                body |-> [fields |-> <<>>]],
     is_init |-> FALSE]

\* a plausible slip: with_field puts the field with the optional header fields
with_field_to_header(b, field) ==
    [b EXCEPT !.inner.header.fields = Append(@, field), !.is_init = TRUE]

\* a plausible slip: with_header returns an initialized builder, as with_field does
with_header_initializing(b, field) ==
    [b EXCEPT !.inner.header.fields = Append(@, field), !.is_init = TRUE]

\* MessageBuilder::with_header
with_header(b, field) ==
    [b EXCEPT !.inner.header.fields = Append(@, field)]

\* a plausible slip: the field is put in front of the body instead of behind it
with_field_in_front(b, field) ==
    [b EXCEPT !.inner.body.fields = <<field>> \o @, !.is_init = TRUE]

\* MessageBuilder::with_field
with_field(b, field) ==
    [b EXCEPT !.inner.body.fields = Append(@, field), !.is_init = TRUE]

\* MessageBuilder<true>::build
build(b) == b.inner

(***************************************************************************)
(* encoder/mod.rs.                                                         *)
(***************************************************************************)
\* the two for loops of encode_regular_fields: each field, then one SOH
RECURSIVE encode_each(_)
encode_each(fields) ==
    IF fields = <<>> THEN <<>>
    ELSE field_encode(Head(fields)) \o <<SOH>> \o encode_each(Tail(fields))

\* a plausible slip: the body fields are written before the optional header
encode_regular_fields_body_first(header, body) ==
    field_encode(Custom(MsgType_tag, msg_type_bytes(header.msg_type))) \o <<SOH>>
    \o encode_each(body.fields)
    \o encode_each(header.fields)

encode_regular_fields(header, body) ==
    field_encode(Custom(MsgType_tag, msg_type_bytes(header.msg_type))) \o <<SOH>>
    \o encode_each(header.fields)
    \o encode_each(body.fields)

\* a plausible slip: the body length counts the length field's own SOH as well
encode_framing_headers_counting_soh(header, regular_fields) ==
    field_encode(Custom(BeginString_tag, begin_string_bytes(header.begin_string)))
    \o <<SOH>>
    \o field_encode(Custom(BodyLength_tag, format_uint(Len(regular_fields) + 1)))
    \o <<SOH>>
    \o regular_fields

encode_framing_headers(header, regular_fields) ==
    field_encode(Custom(BeginString_tag, begin_string_bytes(header.begin_string)))
    \o <<SOH>>
    \o field_encode(Custom(BodyLength_tag, format_uint(Len(regular_fields))))
    \o <<SOH>>
    \o regular_fields

\* a plausible slip: the checksum is written with three digits, as FIX has it
finalize_message_three_digits(message) ==
    LET digits == format_uint(digest_of(message))
        padded == IF Len(digits) = 1 THEN <<ZERO, ZERO>> \o digits
                  ELSE IF Len(digits) = 2 THEN <<ZERO>> \o digits
                  ELSE digits
    IN message \o field_encode(Custom(Checksum_tag, padded)) \o <<SOH>>

finalize_message(message) ==
    message \o field_encode(Custom(Checksum_tag, format_uint(digest_of(message))))
    \o <<SOH>>

encode(header, body) ==
    finalize_message(
        encode_framing_headers(header, encode_regular_fields(header, body)))

(***************************************************************************)
(* decoder/decode.rs: Error and the result of decode.                      *)
(* A result is [kind, why, x, y, message]:                                 *)
(*   Ok                 message                                            *)
(*   BadTag             x = the tag                                        *)
(*   MissingMandatoryField  why = the field's name                         *)
(*   BadValue           why = the conversion error                         *)
(*   Lexer              why = the LexError, x = but_got                    *)
(*   UnexpectedChecksum                                                    *)
(*   BodyLength         x = received, y = expected                         *)
(*   ChecksumMismatch   x = calculated, y = expected                       *)
(*   Panic              why = the failed operation                         *)
(* and kind "None" while decode has not returned.                          *)
(***************************************************************************)
SOH_LEN == 1
EQ_LEN == 1
CKSUM_TAG_LEN == 2

NoMessage ==
    [header |-> [begin_string |-> "None", msg_type |-> "None", fields |-> <<>>],
     body |-> [fields |-> <<>>]]
NoBuilder == [inner |-> NoMessage, is_init |-> FALSE]

\* received and expected are the two usize of Error::BodyLength, by their
\* digits; the other results leave them empty
NoResult ==
    [kind |-> "None", why |-> "", x |-> -1, y |-> -1, received |-> <<>>,
     expected |-> <<>>, message |-> NoMessage]
Ok(m) == [NoResult EXCEPT !.kind = "Ok", !.message = m]
Error(kind, why, x, y) ==
    [NoResult EXCEPT !.kind = kind, !.why = why, !.x = x, !.y = y]
Error_BodyLength(received, expected) ==
    [NoResult EXCEPT !.kind = "BodyLength", !.received = received,
                     !.expected = expected]
Error_Lexer(lexed) == Error("Lexer", lexed.err, lexed.but_got, -1)
Error_BadValue(why) == Error("BadValue", why, -1, -1)
Error_BadTag(tag) == Error("BadTag", "", tag, -1)

(***************************************************************************)
(* The inputs of decode.  An input is put together from a first field, a   *)
(* body-length field, a message-type field, body fields, a checksum field  *)
(* and the bytes after it, each drawn from a few right and wrong forms.    *)
(***************************************************************************)
MaxBodyFields == 2
MaxBuilderCalls == 3

\* tag '=' value, and SOH when soh
Wire(tag, val, soh) ==
    tag \o <<EQUALS>> \o val \o (IF soh THEN <<SOH>> ELSE <<>>)

RECURSIVE Concat(_)
Concat(seqs) == IF seqs = <<>> THEN <<>> ELSE Head(seqs) \o Concat(Tail(seqs))

\* 1=0  34=07  34=a  49=S, each with its SOH (with 1=0 the checksum of a right
\* message is below 100, and is written with or without leading zeros)
BodyFieldTexts ==
    {Wire(<<49>>, <<48>>, TRUE), Wire(<<51, 52>>, <<48, 55>>, TRUE),
     Wire(<<51, 52>>, <<97>>, TRUE), Wire(<<52, 57>>, <<83>>, TRUE)}

BodyTexts ==
    {Concat(fs) : fs \in UNION {[1..k -> BodyFieldTexts] : k \in 0..MaxBodyFields}}

\* 8=FIX.4.4|  8=FIX.4.2|  9=FIX.4.4|  x8=FIX.4.4|  8:FIX.4.4|  8=FIX.4.4
FirstFieldTexts ==
    {Wire(<<56>>, FIX44_BYTES, TRUE),
     Wire(<<56>>, <<70, 73, 88, 46, 52, 46, 50>>, TRUE),
     Wire(<<57>>, FIX44_BYTES, TRUE),
     <<120>> \o Wire(<<56>>, FIX44_BYTES, TRUE),
     <<56, 58>> \o FIX44_BYTES \o <<SOH>>,
     Wire(<<56>>, FIX44_BYTES, FALSE)}

\* 35=<t>| for the seven types, 35=X|  35=AA|  35=|  36=A|  36=X|  35=A
TypeFieldTexts ==
    {Wire(<<51, 53>>, msg_type_bytes(t), TRUE) : t \in MsgTypes}
    \cup {Wire(<<51, 53>>, <<88>>, TRUE), Wire(<<51, 53>>, <<65, 65>>, TRUE),
          Wire(<<51, 53>>, <<>>, TRUE), Wire(<<51, 54>>, <<65>>, TRUE),
          Wire(<<51, 54>>, <<88>>, TRUE), Wire(<<51, 53>>, <<65>>, FALSE)}

LenKinds ==
    {"exact", "padded", "less", "more", "more2", "empty", "alpha", "minus",
     "two31", "max", "over"}
LenKindsOfBody == {"exact", "less", "more", "more2"}

\* the text of the declared body length, for a body of n bytes
LenText(n, kind) ==
    CASE kind = "exact" -> format_uint(n)
      [] kind = "padded" -> <<48>> \o format_uint(n)
      [] kind = "less" -> format_uint(n - 1)
      [] kind = "more" -> format_uint(n + 1)
      [] kind = "more2" -> format_uint(n + 2)
      [] kind = "empty" -> <<>>
      [] kind = "alpha" -> <<120>>
      [] kind = "minus" -> <<MINUS, 49>>
      [] kind = "two31" -> format_u64(u64_add(U64(2147483647), U64(1)))
      [] kind = "max" -> format_u64(U64_MAX)
      [] kind = "over" -> format_u64(u64_add(U64_MAX, U64(1)))

Pad3(digits) ==
    CASE Len(digits) = 1 -> <<48, 48>> \o digits
      [] Len(digits) = 2 -> <<48>> \o digits
      [] OTHER -> digits

SumKinds ==
    {"exact", "padded", "less", "more", "more2", "zero", "alpha", "big", "empty"}

\* the text of the checksum value, for the bytes pre before a checksum field
\* whose tag is written tg
SumText(pre, tg, kind) ==
    CASE kind = "exact" -> format_uint(digest_of(pre))
      [] kind = "padded" -> Pad3(format_uint(digest_of(pre)))
      [] kind = "less" -> format_uint(digest_of(SubSeq(pre, 1, Len(pre) - 1)))
      [] kind = "more" -> format_uint(digest_of(pre \o SubSeq(tg, 1, 1)))
      [] kind = "more2" -> format_uint(digest_of(pre \o SubSeq(tg, 1, 2)))
      [] kind = "zero" -> <<48, 48, 48>>
      [] kind = "alpha" -> <<97, 98, 99>>
      [] kind = "big" -> <<51, 48, 48>>
      [] kind = "empty" -> <<>>

\* 10  010
ChecksumTagTexts == {<<49, 48>>, <<48, 49, 48>>}

\* nothing  11=x|  45  x  99999=5=y|  =z|
TailTexts ==
    {<<>>, Wire(<<49, 49>>, <<120>>, TRUE), <<52, 53>>, <<120>>,
     Wire(<<57, 57, 57, 57, 57>>, <<>>, FALSE) \o Wire(<<53>>, <<121>>, TRUE),
     Wire(<<>>, <<122>>, TRUE)}

\* the bytes before the checksum field
Prefix(first, lentag, lenkind, type, body) ==
    first \o Wire(lentag, LenText(Len(type \o body), lenkind), TRUE) \o type \o body

\* every form of the three header fields, before one body field and a right trailer
HeaderInputs ==
    {LET pre == Prefix(first, lentag, lenkind, type, Wire(<<49>>, <<120>>, TRUE))
     IN pre \o Wire(<<49, 48>>, SumText(pre, <<49, 48>>, "exact"), TRUE) :
        first \in FirstFieldTexts, lentag \in {<<57>>, <<56>>},
        lenkind \in LenKinds, type \in TypeFieldTexts}

\* a right header before every form of body, with no checksum field
OpenInputs ==
    {Prefix(Wire(<<56>>, FIX44_BYTES, TRUE), <<57>>, lenkind, Wire(<<51, 53>>, <<65>>, TRUE), body) :
        lenkind \in LenKindsOfBody, body \in BodyTexts}

\* ... and with every form of checksum field and of the bytes after it
ClosedInputs ==
    {LET pre == Prefix(Wire(<<56>>, FIX44_BYTES, TRUE), <<57>>, c[1],
                       Wire(<<51, 53>>, <<65>>, TRUE), c[2])
     IN pre \o Wire(c[3], SumText(pre, c[3], c[4]), c[5]) \o c[6] :
        c \in LenKindsOfBody \X BodyTexts \X ChecksumTagTexts \X SumKinds
              \X BOOLEAN \X TailTexts}

\* a right header, the body field 1=<b>, a checksum field 10=<sum>|, then
\* 99999=5=y|, with the length declared six bytes too long and the byte b chosen
\* so that the bytes up to six past the start of the checksum field sum to the
\* number the text sum denotes (zero for the empty text)
ForgedWith(b) ==
    Prefix(Wire(<<56>>, FIX44_BYTES, TRUE), <<57>>, "exact",
           Wire(<<51, 53>>, <<65>>, TRUE),
           Wire(<<49>>, <<b>>, TRUE) \o <<0, 0, 0, 0, 0, 0>>)
ForgedPrefix(b) == SubSeq(ForgedWith(b), 1, Len(ForgedWith(b)) - 6)
ForgedRest(sum) ==
    Wire(<<49, 48>>, sum, TRUE)
    \o Wire(<<57, 57, 57, 57, 57>>, <<>>, FALSE) \o Wire(<<53>>, <<121>>, TRUE)
ForgedNumber(sum) == IF sum = <<>> THEN 0 ELSE parse_u8(sum).value
ForgedByte(sum) ==
    (ForgedNumber(sum) + 256
       - digest_of(ForgedPrefix(0) \o SubSeq(ForgedRest(sum), 1, 6))) % 256
ForgedInputs ==
    {ForgedPrefix(ForgedByte(sum)) \o ForgedRest(sum) :
        sum \in {<<>>, <<55>>, <<48, 55>>}}

\* the values of a 34 field that are no unsigned decimal: nothing  -1  7x  +7
SeqNumTexts == {<<>>, <<MINUS, 49>>, <<55, 120>>, <<43, 55>>}

\* a right header and a body with such a 34 field, first or after 1=0|, last or
\* before 49=S|; then nothing, or a checksum field (right or 000) and nothing or
\* 11=x| after it
SeqNumInputs ==
    {LET pre == Prefix(Wire(<<56>>, FIX44_BYTES, TRUE), <<57>>, c[1],
                       Wire(<<51, 53>>, <<65>>, TRUE),
                       c[2] \o Wire(<<51, 52>>, c[3], TRUE) \o c[4])
     IN IF c[5] = "none" THEN pre
        ELSE pre \o Wire(<<49, 48>>, SumText(pre, <<49, 48>>, c[5]), TRUE) \o c[6] :
        c \in {"exact", "less"} \X {<<>>, Wire(<<49>>, <<48>>, TRUE)} \X SeqNumTexts
              \X {<<>>, Wire(<<52, 57>>, <<83>>, TRUE)}
              \X {"none", "exact", "zero"}
              \X {<<>>, Wire(<<49, 49>>, <<120>>, TRUE)}}

\* the values of a 34 field that take more than 31 bits: 2^31, 2^64 - 1 and
\* 2^64, with and without a leading zero
LongSeqNumTexts ==
    {zero \o format_u64(n) :
        zero \in {<<>>, <<ZERO>>},
        n \in {u64_add(U64(2147483647), U64(1)), U64_MAX,
               u64_add(U64_MAX, U64(1))}}

\* a right header and a body with such a 34 field, first or after 1=0|; then
\* nothing or a right checksum field
LongSeqNumInputs ==
    {LET pre == Prefix(Wire(<<56>>, FIX44_BYTES, TRUE), <<57>>, "exact",
                       Wire(<<51, 53>>, <<65>>, TRUE),
                       c[1] \o Wire(<<51, 52>>, c[2], TRUE))
     IN IF c[3] THEN pre \o Wire(<<49, 48>>, SumText(pre, <<49, 48>>, "exact"), TRUE)
        ELSE pre :
        c \in {<<>>, Wire(<<49>>, <<48>>, TRUE)} \X LongSeqNumTexts \X BOOLEAN}

Inputs ==
    HeaderInputs \cup OpenInputs \cup ClosedInputs \cup ForgedInputs
    \cup SeqNumInputs \cup LongSeqNumInputs

\* the fields given to the builder: MsgSeqNum(U64(7)), SenderCompID("S"), 58=y
FieldArgs == {MsgSeqNum(U64(7)), SenderCompID(<<83>>), Custom(58, <<121>>)}

\* the message types given to the builder
TypeArgs == {"Logon", "Heartbeat"}

(***************************************************************************)
(* State.                                                                  *)
(*   pc        where the program is: "Building" and "Built" for the        *)
(*             builder and the encoder, the decoder's state during decode, *)
(*             "Returned" once decode has returned                         *)
(*   message   the Message given to encode (NoMessage for a raw input)     *)
(*   bytes     the input of decode                                         *)
(*   cursor    lexer.cursor                                                *)
(*   builder   the MessageBuilder (the caller's while building, then       *)
(*             decode's)                                                   *)
(*   begin_string, body_length, body_start_cursor, value,                  *)
(*   cursor_before_checksum    the locals of decode                        *)
(*   result    what decode returned                                        *)
(*   trace     the decoder states entered so far                           *)
(*   invoked   the call under way: the function and its arguments          *)
(*             (Message::builder with the version and type given to it,    *)
(*             decode, or one of the functions called on their own below)  *)
(*   returned  what a function called on its own returned                  *)
(*   digest    Digest.checksum, the one field of a Digest                  *)
(*   calls     the calls made so far on the object under construction, in  *)
(*             order: [method, field] on a MessageBuilder, the byte        *)
(*             strings pushed on a Digest                                  *)
(***************************************************************************)
VARIABLES pc, message, bytes, cursor, builder, begin_string, body_length,
          body_start_cursor, value, cursor_before_checksum, result, trace,
          invoked, returned, digest, calls

vars == <<pc, message, bytes, cursor, builder, begin_string, body_length,
          body_start_cursor, value, cursor_before_checksum, result, trace,
          invoked, returned, digest, calls>>

decode_locals ==
    <<begin_string, body_length, body_start_cursor, value, cursor_before_checksum>>

\* nothing returned yet by a function called on its own
NoReturn == <<>>

\* Digest::default()
Digest_default == 0

\* a call of Message::builder or of decode
Invoked(fn, version, type) == [fn |-> fn, begin_string |-> version, msg_type |-> type]

InitLocals ==
    /\ cursor = 0
    /\ begin_string = "None"
    /\ body_length = U64(0)
    /\ body_start_cursor = 0
    /\ value = <<>>
    /\ cursor_before_checksum = 0
    /\ result = NoResult

\* decode called on raw bytes
InitDecode ==
    /\ pc = "ExpectVersion"
    /\ message = NoMessage
    /\ bytes \in Inputs
    /\ builder = NoBuilder
    /\ trace = <<"ExpectVersion">>
    /\ InitLocals
    /\ invoked = Invoked("decode", "None", "None")
    /\ returned = NoReturn
    /\ digest = Digest_default
    /\ calls = <<>>

\* Message::builder(begin_string, msg_type)
InitBuilder ==
    /\ pc = "Building"
    /\ message = NoMessage
    /\ bytes = <<>>
    /\ \E t \in TypeArgs :
         /\ builder = Message_builder("FIX44", t)
         /\ invoked = Invoked("Message::builder", "FIX44", t)
    /\ trace = <<>>
    /\ InitLocals
    /\ returned = NoReturn
    /\ digest = Digest_default
    /\ calls = <<>>

Init == InitDecode \/ InitBuilder

(***************************************************************************)
(* message/mod.rs: the caller builds a Message and encodes it.             *)
(***************************************************************************)
BuilderCalls(b) == Len(b.inner.header.fields) + Len(b.inner.body.fields)

\* builder.with_header(field)
WithHeader(field) ==
    /\ pc = "Building"
    /\ BuilderCalls(builder) < MaxBuilderCalls
    /\ builder' = with_header(builder, field)
    /\ calls' = Append(calls, [method |-> "with_header", field |-> field])
    /\ UNCHANGED <<pc, message, bytes, cursor, decode_locals, result, trace>>
    /\ UNCHANGED <<invoked, returned, digest>>

\* builder.with_field(field)
WithField(field) ==
    /\ pc = "Building"
    /\ BuilderCalls(builder) < MaxBuilderCalls
    /\ builder' = with_field(builder, field)
    /\ calls' = Append(calls, [method |-> "with_field", field |-> field])
    /\ UNCHANGED <<pc, message, bytes, cursor, decode_locals, result, trace>>
    /\ UNCHANGED <<invoked, returned, digest>>

\* builder.build(): only MessageBuilder<true> has it
Build ==
    /\ pc = "Building"
    /\ builder.is_init
    /\ message' = build(builder)
    /\ builder' = NoBuilder
    /\ pc' = "Built"
    /\ UNCHANGED <<bytes, cursor, decode_locals, result, trace>>
    /\ UNCHANGED <<invoked, returned, digest, calls>>

\* message.encode(), and decode called on the bytes
Encode ==
    /\ pc = "Built"
    /\ bytes' = encode(message.header, message.body)
    /\ pc' = "ExpectVersion"
    /\ trace' = <<"ExpectVersion">>
    /\ UNCHANGED <<message, cursor, builder, decode_locals, result>>
    /\ UNCHANGED <<invoked, returned, digest, calls>>

(***************************************************************************)
(* decoder/decode.rs: decode, one action for each of its states.  An       *)
(* action works out the error it returns with, or NoResult when decode     *)
(* goes on.                                                                *)
(***************************************************************************)
\* decode.rs 197-204
version_failure(t, v, parsed) ==
    IF ~t.ok THEN Error_Lexer(t)
    ELSE IF ~v.ok THEN Error_Lexer(v)
    ELSE IF t.tag # BeginString_tag THEN Error_BadTag(t.tag)
    ELSE IF ~parsed.ok THEN Error_BadValue(parsed.value)
    ELSE NoResult

ExpectVersion ==
    /\ pc = "ExpectVersion"
    /\ LET t == lexer_tag(bytes, cursor)
           v == lexer_value(bytes, t.cursor)
           parsed == begin_string_from_fix_bytes(v.value)
           failure == version_failure(t, v, parsed)
       IN /\ cursor' = IF t.ok THEN v.cursor ELSE t.cursor
          /\ result' = failure
          /\ pc' = IF failure = NoResult THEN "ExpectLength" ELSE "Returned"
          /\ trace' = IF failure = NoResult THEN Append(trace, "ExpectLength")
                      ELSE trace
          /\ begin_string' = IF failure = NoResult THEN parsed.value
                             ELSE begin_string
    /\ UNCHANGED <<message, bytes, builder, body_length, body_start_cursor, value,
                   cursor_before_checksum>>
    /\ UNCHANGED <<invoked, returned, digest, calls>>

\* decode.rs 206-213
length_failure(t, v, parsed) ==
    IF ~t.ok THEN Error_Lexer(t)
    ELSE IF ~v.ok THEN Error_Lexer(v)
    ELSE IF t.tag # BodyLength_tag THEN Error("MissingMandatoryField", "body length", -1, -1)
    ELSE IF ~parsed.ok THEN Error_BadValue(parsed.err)
    ELSE NoResult

ExpectLength ==
    /\ pc = "ExpectLength"
    /\ LET t == lexer_tag(bytes, cursor)
           v == lexer_value(bytes, t.cursor)
           parsed == parse_usize(v.value)
           failure == length_failure(t, v, parsed)
       IN /\ cursor' = IF t.ok THEN v.cursor ELSE t.cursor
          /\ result' = failure
          /\ pc' = IF failure = NoResult THEN "ExpectType" ELSE "Returned"
          /\ trace' = IF failure = NoResult THEN Append(trace, "ExpectType")
                      ELSE trace
          /\ body_length' = IF failure = NoResult THEN parsed.value ELSE body_length
          /\ body_start_cursor' = IF failure = NoResult THEN v.cursor
                                  ELSE body_start_cursor
    /\ UNCHANGED <<message, bytes, builder, begin_string, value,
                   cursor_before_checksum>>
    /\ UNCHANGED <<invoked, returned, digest, calls>>

\* decode.rs 216-223: the tag is checked before the value is lexed
type_failure(t, v, parsed) ==
    IF ~t.ok THEN Error_Lexer(t)
    ELSE IF t.tag # MsgType_tag THEN Error_BadTag(t.tag)
    ELSE IF ~v.ok THEN Error_Lexer(v)
    ELSE IF ~parsed.ok THEN Error_BadValue(parsed.value)
    ELSE NoResult

ExpectType ==
    /\ pc = "ExpectType"
    /\ LET t == lexer_tag(bytes, cursor)
           v == lexer_value(bytes, t.cursor)
           parsed == msg_type_from_fix_bytes(v.value)
           failure == type_failure(t, v, parsed)
       IN /\ cursor' = IF t.ok /\ t.tag = MsgType_tag THEN v.cursor ELSE t.cursor
          /\ result' = failure
          /\ pc' = IF failure = NoResult THEN "ExpectFirstBodyField" ELSE "Returned"
          /\ trace' = IF failure = NoResult THEN Append(trace, "ExpectFirstBodyField")
                      ELSE trace
          /\ builder' = IF failure = NoResult
                        THEN Message_builder(begin_string, parsed.value)
                        ELSE builder
    /\ UNCHANGED <<message, bytes, decode_locals>>
    /\ UNCHANGED <<invoked, returned, digest, calls>>

\* decode.rs 227-230: tag() and value() are both called, then matched
first_field_failure(t, v, made) ==
    IF ~t.ok THEN Error_Lexer(t)
    ELSE IF ~v.ok THEN Error_Lexer(v)
    ELSE IF ~made.ok THEN Error_BadValue(made.err)
    ELSE NoResult

ExpectFirstBodyField ==
    /\ pc = "ExpectFirstBodyField"
    /\ LET t == lexer_tag(bytes, cursor)
           v == lexer_value(bytes, t.cursor)
           made == try_new(t.tag, v.value)
           failure == first_field_failure(t, v, made)
       IN /\ cursor' = v.cursor
          /\ result' = failure
          /\ pc' = IF failure = NoResult THEN "ConsumeFields" ELSE "Returned"
          /\ trace' = IF failure = NoResult THEN Append(trace, "ConsumeFields")
                      ELSE trace
          /\ builder' = IF failure = NoResult THEN with_field(builder, made.field)
                        ELSE builder
    /\ UNCHANGED <<message, bytes, decode_locals>>
    /\ UNCHANGED <<invoked, returned, digest, calls>>

\* decode.rs 232-235, 273-275: one turn of the while loop up to `if tag == 10`.
\* The loop ends when tag() fails, whatever the failure.
ConsumeFields ==
    /\ pc = "ConsumeFields"
    /\ LET t == lexer_tag(bytes, cursor)
           v == lexer_value(bytes, t.cursor)
           made == try_new(t.tag, v.value)
       IN IF ~t.ok
          THEN /\ cursor' = t.cursor
               /\ pc' = "Done"
               /\ trace' = Append(trace, "Done")
               /\ UNCHANGED <<builder, value, result>>
          ELSE IF ~v.ok
          THEN /\ cursor' = v.cursor
               /\ pc' = "Returned"
               /\ result' = Error_Lexer(v)
               /\ UNCHANGED <<builder, value, trace>>
          ELSE IF t.tag = Checksum_tag
          THEN /\ cursor' = v.cursor
               /\ pc' = "ExpectChecksum"
               /\ trace' = Append(trace, "ExpectChecksum")
               /\ value' = v.value
               /\ UNCHANGED <<builder, result>>
          ELSE IF ~made.ok
          THEN /\ cursor' = v.cursor
               /\ pc' = "Returned"
               /\ result' = Error_BadValue(made.err)
               /\ UNCHANGED <<builder, value, trace>>
          ELSE /\ cursor' = v.cursor
               /\ builder' = with_field(builder, made.field)
               /\ UNCHANGED <<pc, value, result, trace>>
    /\ UNCHANGED <<message, bytes, begin_string, body_length, body_start_cursor,
                   cursor_before_checksum>>
    /\ UNCHANGED <<invoked, returned, digest, calls>>

\* a plausible slip: the SOH after the checksum value is left out of the count
cursor_before_checksum_without_soh(cur, val) ==
    cur - Len(val) - EQ_LEN - CKSUM_TAG_LEN

\* decode.rs 242-243, from the cursor after the look-ahead tag()
cursor_before_checksum_of(cur, val) ==
    cur - SOH_LEN - Len(val) - EQ_LEN - CKSUM_TAG_LEN

\* a plausible slip: the operands of the subtraction are exchanged
received_body_length_exchanged(before, start) == start - before

\* decode.rs 246
received_body_length_of(before, start) == before - start

\* decode.rs 237-272: the error of the checksum branch, NoResult when it passes.
\* look is the look-ahead tag(), before the position the code takes for the
\* start of the checksum field.  The subtractions are of usize: one that goes
\* below zero panics (a build with overflow checks; without them the value wraps
\* modulo 2^64 and the comparison with the declared length is of the wrapped
\* number).  wraps says which build.
checksum_failure(input, look, val, before, start, declared, wraps) ==
    LET difference == received_body_length_of(before, start)
        received == u64_wrapping(difference)
        calculated == digest_of(SubSeq(input, 1, before))
        expected == parse_u8(val)
    IN IF look.ok THEN Error("UnexpectedChecksum", "", -1, -1)
       ELSE IF (before < 0 \/ difference < 0) /\ ~wraps
       THEN Error("Panic", "attempt to subtract with overflow", -1, -1)
       ELSE IF received # declared THEN Error_BodyLength(received, declared)
       ELSE IF before < 0 \/ before > Len(input)
       THEN Error("Panic", "range end index out of range", -1, -1)
       ELSE IF ~expected.ok THEN Error_BadValue(expected.err)
       ELSE IF calculated # expected.value
       THEN Error("ChecksumMismatch", "", calculated, expected.value)
       ELSE NoResult

ExpectChecksum ==
    /\ pc = "ExpectChecksum"
    /\ \E wraps \in BOOLEAN :
         LET look == lexer_tag(bytes, cursor)
             before == cursor_before_checksum_of(look.cursor, value)
             failure == checksum_failure(bytes, look, value, before,
                                         body_start_cursor, body_length, wraps)
         IN /\ cursor' = look.cursor
            /\ cursor_before_checksum' = IF look.ok THEN cursor_before_checksum
                                         ELSE before
            /\ result' = failure
            /\ pc' = IF failure = NoResult THEN "ConsumeFields" ELSE "Returned"
            /\ trace' = IF failure = NoResult THEN Append(trace, "ConsumeFields")
                        ELSE trace
    /\ UNCHANGED <<message, bytes, builder, begin_string, body_length,
                   body_start_cursor, value>>
    /\ UNCHANGED <<invoked, returned, digest, calls>>

\* decode.rs 278-279
Done ==
    /\ pc = "Done"
    /\ result' = Ok(build(builder))
    /\ pc' = "Returned"
    /\ UNCHANGED <<message, bytes, cursor, builder, decode_locals, trace>>
    /\ UNCHANGED <<invoked, returned, digest, calls>>

Next ==
    \/ \E field \in FieldArgs : WithHeader(field)
    \/ \E field \in FieldArgs : WithField(field)
    \/ Build
    \/ Encode
    \/ ExpectVersion
    \/ ExpectLength
    \/ ExpectType
    \/ ExpectFirstBodyField
    \/ ConsumeFields
    \/ ExpectChecksum
    \/ Done

Spec == Init /\ [][Next]_vars

(***************************************************************************)
(* The wire format, read off the input without the lexer: the properties   *)
(* below are stated against it.  An input is cut at every SOH into wire    *)
(* fields [start, text, soh]: start is the 0-based index of the field's    *)
(* first byte, text its bytes without the SOH, soh whether an SOH ends it. *)
(***************************************************************************)
\* the least index i >= from (0-based) with input[i] = byte, Len(input) if none
FirstAt(input, byte, from) ==
    IF \E i \in from..(Len(input) - 1) : input[i + 1] = byte
    THEN CHOOSE i \in from..(Len(input) - 1) :
             /\ input[i + 1] = byte
             /\ \A j \in from..(i - 1) : input[j + 1] # byte
    ELSE Len(input)

RECURSIVE WireFieldsFrom(_, _)
WireFieldsFrom(input, from) ==
    IF from >= Len(input) THEN <<>>
    ELSE LET end == FirstAt(input, SOH, from)
         IN <<[start |-> from, text |-> Slice(input, from, end),
               soh |-> end < Len(input)]>>
            \o WireFieldsFrom(input, end + 1)

WireFields(input) == WireFieldsFrom(input, 0)

HasEquals(f) == FirstAt(f.text, EQUALS, 0) < Len(f.text)
TagText(f) == Slice(f.text, 0, FirstAt(f.text, EQUALS, 0))
ValueText(f) == Slice(f.text, FirstAt(f.text, EQUALS, 0) + 1, Len(f.text))

\* one or more ASCII digits, few enough for the number to be held
IsDecimal(text) ==
    /\ Len(text) \in 1..9
    /\ \A i \in 1..Len(text) : text[i] \in ZERO..NINE

\* the number a decimal text denotes
RECURSIVE DecimalValue(_)
DecimalValue(text) ==
    IF text = <<>> THEN 0
    ELSE 10 * DecimalValue(SubSeq(text, 1, Len(text) - 1)) + (text[Len(text)] - ZERO)

\* the number a text of digits denotes, as a 64-bit number is held: by its
\* digits without leading zeros
DecimalDigits(text) == u64_canonical([i \in 1..Len(text) |-> text[i] - ZERO])

\* one or more ASCII digits that denote a number of 64 bits
IsDecimal64(text) ==
    /\ Len(text) >= 1
    /\ \A i \in 1..Len(text) : text[i] \in ZERO..NINE
    /\ u64_le(DecimalDigits(text), U64_MAX)

\* the tag of a wire field, -1 when the text is no tag=value with a tag in 0..65535
WireTag(f) ==
    IF HasEquals(f) /\ IsDecimal(TagText(f)) /\ DecimalValue(TagText(f)) <= U16_MAX
    THEN DecimalValue(TagText(f))
    ELSE -1

\* the sum of the first n bytes of the input, modulo 256
RECURSIVE ByteSum(_, _)
ByteSum(input, n) == IF n = 0 THEN 0 ELSE ByteSum(input, n - 1) + input[n]
SumBefore(input, n) == ByteSum(input, n) % 256

\* the index in WireFields of the first field with tag 10 after the first three,
\* 0 when there is none
ChecksumIndex(input) ==
    LET fields == WireFields(input)
        found == {i \in 4..Len(fields) : WireTag(fields[i]) = Checksum_tag}
    IN IF found = {} THEN 0
       ELSE CHOOSE i \in found : \A j \in found : i <= j

\* the three header fields are 8=FIX.4.4, 9=<digits>, 35=<type>, each with its SOH
HeaderWellFormed(input) ==
    LET fields == WireFields(input)
    IN /\ Len(fields) >= 3
       /\ \A i \in 1..3 : fields[i].soh
       /\ fields[1].text = <<56, EQUALS>> \o FIX44_BYTES
       /\ HasEquals(fields[2]) /\ TagText(fields[2]) = <<57>>
       /\ IsDecimal64(ValueText(fields[2]))
       /\ HasEquals(fields[3]) /\ TagText(fields[3]) = <<51, 53>>
       /\ \E t \in MsgTypes : ValueText(fields[3]) = msg_type_bytes(t)

\* a body field: tag=value with a tag other than 10 and a value try_new accepts
BodyFieldWellFormed(f) ==
    /\ f.soh
    /\ WireTag(f) >= 0
    /\ WireTag(f) # Checksum_tag
    /\ try_new(WireTag(f), ValueText(f)).ok

\* well-formed up to a checksum field: a well-formed header, then k >= min
\* well-formed body fields, then a field of tag 10
WellFormedUpToChecksum(input, min) ==
    LET fields == WireFields(input)
        at == ChecksumIndex(input)
    IN /\ HeaderWellFormed(input)
       /\ at >= 4 + min
       /\ \A i \in 4..(at - 1) : BodyFieldWellFormed(fields[i])

\* the declared body length, the measured one (both as 64-bit numbers, by
\* their digits) and the checksum of the prefix, of an input that is
\* well-formed up to its checksum field
DeclaredLength(input) == DecimalDigits(ValueText(WireFields(input)[2]))
ChecksumStart(input) == WireFields(input)[ChecksumIndex(input)].start
MeasuredLength(input) == U64(ChecksumStart(input) - WireFields(input)[3].start)
ChecksumField(input) == WireFields(input)[ChecksumIndex(input)]
ChecksumIsLast(input) == ChecksumIndex(input) = Len(WireFields(input))

\* 8=FIX.4.4 SOH 9=<n> SOH 35=<t> SOH f1 SOH ... fk SOH 10=<c> SOH with k >= 1,
\* n the body length and c the checksum, in decimal
WellFormed(input) ==
    /\ WellFormedUpToChecksum(input, 1)
    /\ ChecksumIsLast(input)
    /\ ChecksumField(input).soh
    /\ TagText(ChecksumField(input)) = <<49, 48>>
    /\ DeclaredLength(input) = MeasuredLength(input)
    /\ IsDecimal(ValueText(ChecksumField(input)))
    /\ DecimalValue(ValueText(ChecksumField(input)))
           = SumBefore(input, ChecksumStart(input))

(***************************************************************************)
(* Properties.                                                             *)
(***************************************************************************)
Returned == pc = "Returned"

DecoderStates ==
    <<"ExpectVersion", "ExpectLength", "ExpectType", "ExpectFirstBodyField",
      "ConsumeFields", "ExpectChecksum", "Done">>

\* the index of the first entry of the trace that is the state s, 0 if none
FirstEntry(s) ==
    IF \E i \in 1..Len(trace) : trace[i] = s
    THEN CHOOSE i \in 1..Len(trace) :
             trace[i] = s /\ \A j \in 1..(i - 1) : trace[j] # s
    ELSE 0

\* every decoder state was entered, and first entered in the order of the list
StatesPassedInOrder ==
    /\ \A k \in 1..Len(DecoderStates) : FirstEntry(DecoderStates[k]) > 0
    /\ \A k \in 1..(Len(DecoderStates) - 1) :
           FirstEntry(DecoderStates[k]) < FirstEntry(DecoderStates[k + 1])

\* C1: round trip. When a Message built by the builder is encoded and the bytes
\* are decoded, decode returns Ok with a Message equal to the built one: the same
\* version, message type, optional header fields and body fields.
C1_RoundTrip ==
    (Returned /\ message # NoMessage)
        => (result.kind = "Ok" /\ result.message = message)

\* C2: decode integrity. Whenever decode returns a Message, every decoder state
\* was passed in order, the input holds a tag-10 checksum field, the declared
\* body length equals the measured one and the checksum field's value is the
\* modulo-256 sum of the bytes before it.
C2_DecodeIntegrity ==
    result.kind = "Ok"
        => /\ StatesPassedInOrder
           /\ ChecksumIndex(bytes) # 0
           /\ DeclaredLength(bytes) = MeasuredLength(bytes)
           /\ IsDecimal(ValueText(ChecksumField(bytes)))
           /\ DecimalValue(ValueText(ChecksumField(bytes)))
                  = SumBefore(bytes, ChecksumStart(bytes))

\* a tag=value field follows the checksum field on the wire
FieldFollowsChecksum(input) ==
    /\ ChecksumIndex(input) # 0
    /\ ChecksumIndex(input) < Len(WireFields(input))
    /\ ChecksumField(input).soh
    /\ WireTag(WireFields(input)[ChecksumIndex(input) + 1]) >= 0

\* C3: unexpected checksum. For every input, well-formed up to its checksum
\* field, in which a field follows the checksum field, decode fails with
\* UnexpectedChecksum (whatever the body length and the checksum are).
C3_UnexpectedChecksum ==
    (Returned /\ WellFormedUpToChecksum(bytes, 0) /\ FieldFollowsChecksum(bytes))
        => result.kind = "UnexpectedChecksum"

\* C4: no field after the checksum is retained. The body of a returned Message
\* holds only fields located before the checksum field on the wire: its i-th
\* field is the input's (3+i)-th, and that one comes before the checksum field.
C4_NothingAfterChecksumRetained ==
    (result.kind = "Ok" /\ ChecksumIndex(bytes) # 0)
        => \A i \in 1..Len(result.message.body.fields) :
               3 + i < ChecksumIndex(bytes)

\* C5: at least one field between the message type and the checksum. For every
\* input whose field directly after 35=<type> is the tag-10 checksum field,
\* decode returns an error, never a Message.
C5_ChecksumDirectlyAfterType ==
    (Returned /\ Len(WireFields(bytes)) >= 4
       /\ WireTag(WireFields(bytes)[3]) = MsgType_tag
       /\ WireTag(WireFields(bytes)[4]) = Checksum_tag)
        => result.kind # "Ok"

\* C6: acceptance of well-formed messages. For every input of the form
\* 8=FIX.4.4 SOH 9=<n> SOH 35=<t> SOH f1 SOH ... fk SOH 10=<c> SOH with k >= 1,
\* a supported type, body fields try_new accepts, n the body length and c the
\* checksum (with or without leading zeros), decode returns Ok.
C6_WellFormedAccepted ==
    (Returned /\ WellFormed(bytes)) => result.kind = "Ok"

\* C6 witness: decode has returned Ok for a well-formed raw input whose checksum
\* is written with a leading zero and whose body has two fields
C6_Witness ==
    /\ Returned /\ message = NoMessage /\ WellFormed(bytes)
    /\ Head(ValueText(ChecksumField(bytes))) = ZERO
    /\ Len(ValueText(ChecksumField(bytes))) = 3
    /\ result.kind = "Ok"
    /\ Len(result.message.body.fields) = 2

\* the checksum field's value, when it is a decimal text
ChecksumValue(input) == DecimalValue(ValueText(ChecksumField(input)))

\* C7: checksum mismatch. For an input that is well-formed up to the checksum
\* field, which is its last field, and has a correct body length, if the
\* checksum value parses as a u8 e that differs from the modulo-256 sum s of the
\* bytes before the checksum field, decode fails with
\* ChecksumMismatch{calculated: s, expected: e}.
C7_ChecksumMismatch ==
    (Returned /\ WellFormedUpToChecksum(bytes, 1) /\ ChecksumIsLast(bytes)
       /\ DeclaredLength(bytes) = MeasuredLength(bytes)
       /\ IsDecimal(ValueText(ChecksumField(bytes)))
       /\ ChecksumValue(bytes) <= U8_MAX
       /\ ChecksumValue(bytes) # SumBefore(bytes, ChecksumStart(bytes)))
        => result = Error("ChecksumMismatch", "",
                          SumBefore(bytes, ChecksumStart(bytes)),
                          ChecksumValue(bytes))

\* C8: body-length mismatch. When the checksum field is reached (the input is
\* well-formed up to it and it is the last field) and the declared body length d
\* differs from the measured byte count m, decode fails with
\* BodyLength{expected: d, received: m}.
C8_BodyLengthMismatch ==
    (Returned /\ WellFormedUpToChecksum(bytes, 1) /\ ChecksumIsLast(bytes)
       /\ DeclaredLength(bytes) # MeasuredLength(bytes))
        => result = Error_BodyLength(MeasuredLength(bytes), DeclaredLength(bytes))

\* one or more ASCII digits
IsDigits(text) == Len(text) >= 1 /\ \A i \in 1..Len(text) : text[i] \in ZERO..NINE

\* the n-th wire field is tag=value with the tag `tag`, and its SOH
SlotHasTag(input, n, tag) ==
    /\ Len(WireFields(input)) >= n
    /\ WireTag(WireFields(input)[n]) = tag
\* the n-th wire field is tag=value with another tag than `tag`
SlotHasOtherTag(input, n, tag) ==
    /\ Len(WireFields(input)) >= n
    /\ WireTag(WireFields(input)[n]) >= 0
    /\ WireTag(WireFields(input)[n]) # tag
SlotValue(input, n) == ValueText(WireFields(input)[n])

VersionSlotRight(input) ==
    /\ SlotHasTag(input, 1, BeginString_tag)
    /\ SlotValue(input, 1) = FIX44_BYTES
    /\ WireFields(input)[1].soh
LengthSlotRight(input) ==
    /\ SlotHasTag(input, 2, BodyLength_tag)
    /\ IsDecimal64(SlotValue(input, 2))
    /\ WireFields(input)[2].soh

\* C9: fixed header slots. A first field with a tag t other than 8 gives
\* BadTag(t); then a second field with a tag other than 9 gives
\* MissingMandatoryField("body length"); then a third field with a tag t other
\* than 35 gives BadTag(t); a right tag with a wrong value (a version other than
\* FIX.4.4, a body length that is no unsigned integer, a message type that is
\* none of the seven) gives BadValue.
C9_FixedHeaderSlots ==
    Returned =>
      /\ SlotHasOtherTag(bytes, 1, BeginString_tag)
           => result = Error_BadTag(WireTag(WireFields(bytes)[1]))
      /\ (SlotHasTag(bytes, 1, BeginString_tag) /\ SlotValue(bytes, 1) # FIX44_BYTES)
           => result.kind = "BadValue"
      /\ (VersionSlotRight(bytes) /\ SlotHasOtherTag(bytes, 2, BodyLength_tag))
           => result = Error("MissingMandatoryField", "body length", -1, -1)
      /\ (VersionSlotRight(bytes) /\ SlotHasTag(bytes, 2, BodyLength_tag)
            /\ ~IsDecimal64(SlotValue(bytes, 2)))
           => result.kind = "BadValue"
      /\ (VersionSlotRight(bytes) /\ LengthSlotRight(bytes)
            /\ SlotHasOtherTag(bytes, 3, MsgType_tag))
           => result = Error_BadTag(WireTag(WireFields(bytes)[3]))
      /\ (VersionSlotRight(bytes) /\ LengthSlotRight(bytes)
            /\ SlotHasTag(bytes, 3, MsgType_tag)
            /\ \A t \in MsgTypes : SlotValue(bytes, 3) # msg_type_bytes(t))
           => result.kind = "BadValue"

\* C10: no panic. decode never panics: when the checksum branch has found no
\* further tag, the index it takes for the start of the checksum field is at
\* least the body start and at most the input length, so neither subtraction
\* goes below zero and the slice bytes[..cursor_before_checksum] is in range.
C10_NoPanic ==
    /\ result.kind # "Panic"
    /\ pc = "ExpectChecksum" =>
         LET look == lexer_tag(bytes, cursor)
             before == cursor_before_checksum_of(look.cursor, value)
         IN ~look.ok => /\ before >= 0
                        /\ before >= body_start_cursor
                        /\ before <= Len(bytes)

\* C10 witness: the checksum branch has computed its index for a checksum field
\* without a trailing SOH, where the index lies before the field's first byte,
\* and has gone on to compare the checksums
C10_Witness ==
    /\ Returned /\ result.kind = "ChecksumMismatch"
    /\ ChecksumIndex(bytes) # 0
    /\ ~ChecksumField(bytes).soh
    /\ cursor_before_checksum < ChecksumStart(bytes)

(***************************************************************************)
(* Functions called on their own.  invoked holds the function and its      *)
(* arguments, pc is "Calling" before the call and "Called" after it, and   *)
(* returned holds what the call returned.  Everything else stays as it is  *)
(* before a decode.                                                        *)
(***************************************************************************)
Called == pc = "Called"

\* the variables a function called on its own leaves alone
decode_state == <<message, bytes, cursor, builder, decode_locals, result, trace>>

\* the state before a decode, with nothing built
InitIdle ==
    /\ message = NoMessage
    /\ bytes = <<>>
    /\ builder = NoBuilder
    /\ trace = <<>>
    /\ InitLocals
    /\ returned = NoReturn
    /\ digest = Digest_default
    /\ calls = <<>>

\* every byte string over the alphabet, of length 0..n
Strings(alphabet, n) == UNION {[1..k -> alphabet] : k \in 0..n}

(***************************************************************************)
(* decoder/num.rs: <target>::parse_fix_int(bytes).                         *)
(***************************************************************************)
MaxNumLen == 3
MaxZeros == 2

\* the targets of the model: impl_for!(u8), (i8), (u16), (i16), (u64)
Targets == {"u8", "i8", "u16", "i16", "u64"}
is_signed(target) == target \in {"i8", "i16"}
MIN(target) ==
    CASE target = "i8" -> I8_MIN
      [] target = "i16" -> I16_MIN
      [] OTHER -> 0
MAX(target) ==
    CASE target = "u8" -> U8_MAX
      [] target = "i8" -> I8_MAX
      [] target = "u16" -> U16_MAX
      [] target = "i16" -> I16_MAX
      [] target = "u64" -> U64_MAX

\* <target>::parse_fix_int(text)
parse_as(target, text) ==
    CASE target = "u8" -> parse_u8(text)
      [] target = "i8" -> parse_i8(text)
      [] target = "u16" -> parse_u16(text)
      [] target = "i16" -> parse_i16(text)
      [] target = "u64" -> parse_u64(text)

\* -  /  0..9  :  x
NumAlphabet == {MINUS, 47, 58, 120} \cup (ZERO..NINE)

\* 0, 00, ... : up to MaxZeros leading zeros
RECURSIVE Zeros(_)
Zeros(n) == IF n = 0 THEN <<>> ELSE <<ZERO>> \o Zeros(n - 1)

\* the magnitudes at the two ends of the range of a target of 8 or 16 bits
EndMagnitudes(target) ==
    {MAX(target) - 1, MAX(target), MAX(target) + 1,
     -MIN(target), -MIN(target) + 1, 10 * MAX(target)}
    \cup ({-MIN(target) - 1} \cap Nat)

\* the same for u64, by their digits: the end of the range, the tenth of it
\* (where checked_mul starts to fail), and the numbers around 2^31 and 2^32
EndMagnitudes64 ==
    {u64_sub(U64_MAX, U64(1)), U64_MAX, u64_add(U64_MAX, U64(1)),
     u64_mul10(U64_MAX),
     SubSeq(U64_MAX, 1, Len(U64_MAX) - 1),
     u64_add(SubSeq(U64_MAX, 1, Len(U64_MAX) - 1), U64(1)),
     U64(2147483647), u64_add(U64(2147483647), U64(1)),
     u64_add(U64(2147483647), U64(2147483647)),
     u64_add(u64_add(U64(2147483647), U64(2147483647)), U64(2))}

\* the decimal texts of these magnitudes
EndNumerals(target) ==
    IF target = "u64" THEN {format_u64(n) : n \in EndMagnitudes64}
    ELSE {format_uint(n) : n \in EndMagnitudes(target)}

\* the numbers at the ends of the range, with and without a sign, leading
\* zeros and a byte that is no digit after them
EndTexts(target) ==
    {sign \o Zeros(z) \o numeral \o after :
        sign \in {<<>>, <<MINUS>>}, z \in 0..MaxZeros,
        numeral \in EndNumerals(target), after \in {<<>>, <<120>>}}

NumTexts(target) == Strings(NumAlphabet, MaxNumLen) \cup EndTexts(target)

InitParse ==
    /\ pc = "Calling"
    /\ InitIdle
    /\ \E target \in Targets : \E text \in NumTexts(target) :
         invoked = [fn |-> "parse_fix_int", target |-> target, bytes |-> text]

ParseFixInt ==
    /\ pc = "Calling"
    /\ invoked.fn = "parse_fix_int"
    /\ returned' = parse_as(invoked.target, invoked.bytes)
    /\ pc' = "Called"
    /\ UNCHANGED <<decode_state, invoked, digest, calls>>

SpecParse == InitParse /\ [][ParseFixInt]_vars

\* the bytes after the sign that a signed target accepts
AfterSign(target, text) ==
    IF is_signed(target) /\ text # <<>> /\ Head(text) = MINUS THEN Tail(text)
    ELSE text

\* an optional '-' (signed targets only), then one or more ASCII digits
IsNumberText(target, text) == IsDigits(AfterSign(target, text))

\* the error e as the target returns it
ParseErrOf(target, e) == IF target = "u64" THEN ParseErr64(e) ELSE ParseErr(e)

\* what parse_fix_int is to return for a text of digits on u64: the number, by
\* its digits, when it is at most 2^64 - 1
Expected64(text) ==
    IF IsDecimal64(text) THEN ParseOk(DecimalDigits(text))
    ELSE ParseErr64("Overflow")

\* the integer such a text denotes, for a target of 8 or 16 bits
Denoted(target, text) ==
    IF AfterSign(target, text) # text THEN -DecimalValue(Tail(text))
    ELSE DecimalValue(text)

\* C11: integer parser correctness. For a text made of an optional '-' (signed
\* targets only) and one or more digits, parse_fix_int returns Ok(v) exactly when
\* the denoted integer v lies in the target's range, leading zeros or not, and
\* Overflow otherwise: never a wrapped or truncated value.
C11_ParserCorrect ==
    (Called /\ IsNumberText(invoked.target, invoked.bytes)) =>
        IF invoked.target = "u64" THEN returned = Expected64(invoked.bytes)
        ELSE LET v == Denoted(invoked.target, invoked.bytes)
             IN returned = IF v >= MIN(invoked.target) /\ v <= MAX(invoked.target)
                           THEN ParseOk(v)
                           ELSE ParseErr("Overflow")

\* C11 witness: -129 was parsed as an i8, with a leading zero, and overflowed
C11_Witness ==
    /\ Called /\ invoked.target = "i8"
    /\ invoked.bytes = <<MINUS, 48, 49, 50, 57>>
    /\ returned = ParseErr("Overflow")

\* C12: integer parser format errors. For every input in which some byte after
\* the optional sign is not an ASCII digit, parse_fix_int returns InvalidDigit,
\* whatever digits precede that byte.
C12_InvalidDigit ==
    (Called
      /\ (is_signed(invoked.target) \/ invoked.bytes = <<>>
            \/ Head(invoked.bytes) # MINUS)
      /\ \E i \in 1..Len(AfterSign(invoked.target, invoked.bytes)) :
             ~is_ascii_digit(AfterSign(invoked.target, invoked.bytes)[i]))
        => returned = ParseErrOf(invoked.target, "InvalidDigit")

\* C13: integer parser empty input. parse_fix_int returns an error for the empty
\* slice and, on a signed target, for the slice that is only '-': never Ok for
\* an input with no digits.
C13_EmptyInput ==
    (Called /\ AfterSign(invoked.target, invoked.bytes) = <<>>) => ~returned.ok

\* C14: integer parser sign handling. On an unsigned target an input starting
\* with '-' yields Overflow, whatever follows; on a signed target the '-' is
\* accepted and the digits are subtracted, so every value down to the minimum
\* parses.
C14_SignHandling ==
    Called =>
      /\ (~is_signed(invoked.target) /\ invoked.bytes # <<>>
            /\ Head(invoked.bytes) = MINUS)
           => returned = ParseErrOf(invoked.target, "Overflow")
      /\ (is_signed(invoked.target) /\ invoked.bytes # <<>>
            /\ Head(invoked.bytes) = MINUS /\ IsDigits(Tail(invoked.bytes))
            /\ -DecimalValue(Tail(invoked.bytes)) >= MIN(invoked.target))
           => returned = ParseOk(-DecimalValue(Tail(invoked.bytes)))
      /\ (is_signed(invoked.target)
            /\ invoked.bytes = <<MINUS>> \o format_uint(-MIN(invoked.target)))
           => returned = ParseOk(MIN(invoked.target))

\* C14 witness: "-x" was parsed as a u8 and gave Overflow
C14_Witness ==
    /\ Called /\ invoked.target = "u8"
    /\ invoked.bytes = <<MINUS, 120>>
    /\ returned = ParseErr("Overflow")

(***************************************************************************)
(* digest.rs: a fresh Digest, then any sequence of push calls.             *)
(***************************************************************************)
MaxPushes == 3

\* the byte strings pushed: nothing, single bytes, and longer strings whose
\* sums pass 255
PushArgs ==
    {<<>>, <<1>>, <<200>>, <<255>>, <<65, 66, 67>>, <<255, 255>>,
     <<200, 100, 56>>}

InitDigest ==
    /\ pc = "Pushing"
    /\ InitIdle
    /\ invoked = [fn |-> "Digest::default"]

\* digest.push(&input)
Push(input) ==
    /\ pc = "Pushing"
    /\ Len(calls) < MaxPushes
    /\ digest' = push(digest, input)
    /\ calls' = Append(calls, input)
    /\ UNCHANGED <<pc, decode_state, invoked, returned>>

\* digest.checksum()
Checksum ==
    /\ pc = "Pushing"
    /\ returned' = digest
    /\ pc' = "Called"
    /\ UNCHANGED <<decode_state, invoked, digest, calls>>

DigestNext == (\E input \in PushArgs : Push(input)) \/ Checksum

SpecDigest == InitDigest /\ [][DigestNext]_vars

\* a byte string pushed one byte at a time, on the checksum c
RECURSIVE PushedByteByByte(_, _)
PushedByteByByte(c, input) ==
    IF input = <<>> THEN c
    ELSE PushedByteByByte(push(c, <<Head(input)>>), Tail(input))

\* C15: checksum accumulator. After any sequence of push calls on a fresh Digest,
\* checksum() is the sum modulo 256 of all the bytes pushed, however they were
\* split over the calls: the same as one push of them all, and the same as one
\* push for each byte. push never fails: the checksum is always a u8.
C15_ChecksumAccumulator ==
    /\ digest \in 0..255
    /\ Called =>
         /\ returned = ByteSum(Concat(calls), Len(Concat(calls))) % 256
         /\ returned = push(Digest_default, Concat(calls))
         /\ returned = PushedByteByByte(Digest_default, Concat(calls))

\* C15 witness: checksum() was called after three pushes, of more than one byte
\* each and of bytes that sum to more than 255
C15_Witness ==
    /\ Called /\ Len(calls) = 3
    /\ \A i \in 1..3 : Len(calls[i]) > 1
    /\ ByteSum(Concat(calls), Len(Concat(calls))) > 255
    /\ returned = ByteSum(Concat(calls), Len(Concat(calls))) % 256

(***************************************************************************)
(* encoder/mod.rs: encode(&header, &body) on a Header and a Body put       *)
(* together directly, as the encoder's tests do: either may have no field. *)
(***************************************************************************)
MaxEncodedFields == 2

\* the sequences of up to MaxEncodedFields fields
FieldSeqs == UNION {[1..k -> FieldArgs] : k \in 0..MaxEncodedFields}

InitEncode ==
    /\ pc = "Calling"
    /\ InitIdle
    /\ \E t \in MsgTypes : \E hs \in FieldSeqs : \E bs \in FieldSeqs :
         invoked = [fn |-> "encode",
                    header |-> [begin_string |-> "FIX44", msg_type |-> t,
                                fields |-> hs],
                    body |-> [fields |-> bs]]

EncodeMessage ==
    /\ pc = "Calling"
    /\ invoked.fn = "encode"
    /\ returned' = encode(invoked.header, invoked.body)
    /\ pc' = "Called"
    /\ UNCHANGED <<decode_state, invoked, digest, calls>>

SpecEncode == InitEncode /\ [][EncodeMessage]_vars

\* the decimal text of n < 1000 without leading zeros ("0" for zero)
Unpadded(n) ==
    CHOOSE text \in Strings(ZERO..NINE, 3) :
        /\ text # <<>>
        /\ DecimalValue(text) = n
        /\ Len(text) = 1 \/ Head(text) # ZERO

\* 8=FIX.4.4|9=5|35=A|10=180|
MinimalLogonBytes ==
    <<56, 61>> \o FIX44_BYTES
    \o <<SOH, 57, 61, 53, SOH, 51, 53, 61, 65, SOH, 49, 48, 61, 49, 56, 48, SOH>>

\* C16: encoder framing values. For every Header and Body, with or without
\* fields, the encoded buffer is 8=<version> SOH 9=<L> SOH <regular section>
\* 10=<C> SOH: L the byte length of the regular section and C the modulo-256 sum
\* of every byte before the checksum field, both in decimal without leading
\* zeros; version 4.4 and type Logon with no fields give
\* 8=FIX.4.4|9=5|35=A|10=180|.
C16_EncoderFraming ==
    Called =>
        LET fields == WireFields(returned)
            last == fields[Len(fields)]
        IN /\ Len(fields) >= 4
           /\ \A i \in 1..Len(fields) : fields[i].soh
           /\ fields[1].text
                = <<56, EQUALS>> \o begin_string_bytes(invoked.header.begin_string)
           /\ TagText(fields[2]) = <<57>>
           /\ ValueText(fields[2]) = Unpadded(last.start - fields[3].start)
           /\ TagText(last) = <<49, 48>>
           /\ ValueText(last) = Unpadded(SumBefore(returned, last.start))
           /\ (invoked.header.msg_type = "Logon" /\ invoked.header.fields = <<>>
                 /\ invoked.body.fields = <<>>)
                => returned = MinimalLogonBytes

\* C16 witness: a message of one body field and no optional header field was
\* encoded, and its checksum, below 100, is written with fewer than three digits
C16_Witness ==
    /\ Called
    /\ invoked.header.fields = <<>> /\ Len(invoked.body.fields) = 1
    /\ Len(ValueText(WireFields(returned)[5])) < 3
    /\ TagText(WireFields(returned)[5]) = <<49, 48>>

\* C17: encoder field order. The regular section is the message-type field, then
\* the optional header fields in insertion order, then the body fields in
\* insertion order, each followed by exactly one SOH: no field is reordered,
\* dropped or duplicated.
C17_EncoderFieldOrder ==
    Called =>
        LET fields == WireFields(returned)
            hs == invoked.header.fields
            bs == invoked.body.fields
        IN /\ Len(fields) = 3 + Len(hs) + Len(bs) + 1
           /\ \A i \in 1..Len(fields) : fields[i].soh
           /\ fields[3].text
                = <<51, 53, EQUALS>> \o msg_type_bytes(invoked.header.msg_type)
           /\ \A i \in 1..Len(hs) : fields[3 + i].text = field_encode(hs[i])
           /\ \A j \in 1..Len(bs) :
                  fields[3 + Len(hs) + j].text = field_encode(bs[j])

\* C17 witness: a message with two different optional header fields and two
\* different body fields, the second header field being the first body field,
\* was encoded
C17_Witness ==
    /\ Called
    /\ Len(invoked.header.fields) = 2 /\ Len(invoked.body.fields) = 2
    /\ invoked.header.fields[1] # invoked.header.fields[2]
    /\ invoked.body.fields[1] # invoked.body.fields[2]
    /\ invoked.header.fields[2] = invoked.body.fields[1]
    /\ Len(WireFields(returned)) = 8

(***************************************************************************)
(* message/mod.rs: Message::builder, then any with_header and with_field   *)
(* calls, then build where the builder has it.                             *)
(***************************************************************************)
BuilderNext ==
    \/ \E field \in FieldArgs : WithHeader(field)
    \/ \E field \in FieldArgs : WithField(field)
    \/ Build

SpecBuilder == InitBuilder /\ [][BuilderNext]_vars

\* the Message under construction, or the one build() returned
Constructed == IF pc = "Building" THEN builder.inner ELSE message

\* with_field has been called
FieldGiven == \E i \in 1..Len(calls) : calls[i].method = "with_field"

\* the arguments of the calls of one method, in call order
IsWithHeader(c) == c.method = "with_header"
IsWithField(c) == c.method = "with_field"
ArgsOf(selected) == [i \in 1..Len(selected) |-> selected[i].field]

\* C18: builder type-state. The builder is initialized exactly when with_field
\* has been called (with_header leaves the state as it is), and build() is
\* reached only from the initialized state: a built Message has at least one
\* body field and carries the version and message type given to
\* Message::builder.
C18_BuilderTypeState ==
    /\ pc = "Building" => (builder.is_init <=> FieldGiven)
    /\ pc = "Built" =>
         /\ FieldGiven
         /\ Len(message.body.fields) >= 1
         /\ message.header.begin_string = invoked.begin_string
         /\ message.header.msg_type = invoked.msg_type

\* C18 witness: build() was called on a builder that was given a body field and
\* then an optional header field
C18_Witness ==
    /\ pc = "Built" /\ Len(calls) = 2
    /\ calls[1].method = "with_field" /\ calls[2].method = "with_header"
    /\ Len(message.body.fields) = 1 /\ Len(message.header.fields) = 1

\* C19: builder order preservation. A fresh builder has no optional header field
\* and no body field; after any interleaving of with_header and with_field calls
\* the optional header is the with_header arguments in call order and the body
\* the with_field arguments in call order (each call appends one field to its
\* own sequence and leaves the other alone), and the version and the message
\* type are the ones given to Message::builder.
C19_BuilderOrder ==
    /\ Constructed.header.fields = ArgsOf(SelectSeq(calls, IsWithHeader))
    /\ Constructed.body.fields = ArgsOf(SelectSeq(calls, IsWithField))
    /\ Constructed.header.begin_string = invoked.begin_string
    /\ Constructed.header.msg_type = invoked.msg_type

\* C19 witness: with_field, with_header and with_field were called in this
\* order, with three different fields
C19_Witness ==
    /\ pc = "Building" /\ Len(calls) = 3
    /\ calls[1].method = "with_field" /\ calls[2].method = "with_header"
    /\ calls[3].method = "with_field"
    /\ Cardinality({calls[i].field : i \in 1..3}) = 3
    /\ builder.inner.body.fields = <<calls[1].field, calls[3].field>>
    /\ builder.inner.header.fields = <<calls[2].field>>

(***************************************************************************)
(* message/field/mod.rs: Field::try_new(tag, bytes).                       *)
(***************************************************************************)
MaxValueLen == 2

\* the well-known tags, their neighbours, the tags of the framing fields and
\* the two ends of u16
TagArgs == {0, 1, 8, 9, 10, 33, 34, 35, 48, 49, 50, 51, 52, 53, 55, 56, 57, 65535}

\* SOH  -  0  7  =  a  0xFF
ValueAlphabet == {SOH, MINUS, 48, 55, EQUALS, 97, 255}

\* the tags with a typed variant: MsgSeqNum, SenderCompID, SendingTime,
\* TargetCompID
WellKnownTags == {field_tag(MsgSeqNum(U64(0))), field_tag(SenderCompID(<<>>)),
                  field_tag(SendingTime(<<>>)), field_tag(TargetCompID(<<>>))}

InitField ==
    /\ pc = "Calling"
    /\ InitIdle
    /\ \E tag \in TagArgs :
         \E text \in Strings(ValueAlphabet, MaxValueLen) \cup LongSeqNumTexts :
           invoked = [fn |-> "Field::try_new", tag |-> tag, bytes |-> text]

TryNew ==
    /\ pc = "Calling"
    /\ invoked.fn = "Field::try_new"
    /\ returned' = try_new(invoked.tag, invoked.bytes)
    /\ pc' = "Called"
    /\ UNCHANGED <<decode_state, invoked, digest, calls>>

SpecField == InitField /\ [][TryNew]_vars

\* C20: tag dispatch. For a tag outside {34, 49, 52, 56} and any byte string,
\* Field::try_new returns Ok(Custom{tag, value}) with the exact input bytes and
\* never fails; for a well-known tag it returns the matching typed variant (the
\* bytes themselves for 49, 52 and 56, the parsed u64 for 34) or the failure of
\* that field's conversion.
C20_TagDispatch ==
    Called =>
      /\ invoked.tag \notin {34, 49, 52, 56} =>
           /\ returned.ok
           /\ returned.field.variant = "Custom"
           /\ returned.field.tag = invoked.tag
           /\ returned.field.value = invoked.bytes
      /\ invoked.tag = 49 =>
           returned.ok /\ returned.field = SenderCompID(invoked.bytes)
      /\ invoked.tag = 52 =>
           returned.ok /\ returned.field = SendingTime(invoked.bytes)
      /\ invoked.tag = 56 =>
           returned.ok /\ returned.field = TargetCompID(invoked.bytes)
      /\ invoked.tag = 34 =>
           IF parse_u64(invoked.bytes).ok
           THEN returned.ok
                /\ returned.field = MsgSeqNum(parse_u64(invoked.bytes).value)
           ELSE ~returned.ok /\ returned.err = parse_u64(invoked.bytes).err
      /\ WellKnownTags = {34, 49, 52, 56}

\* C20 witness: try_new was called with tag 35 and the bytes "=" SOH, which are
\* no message type, and returned a Custom field holding them
C20_Witness ==
    /\ Called /\ invoked.tag = 35 /\ invoked.bytes = <<EQUALS, SOH>>
    /\ returned.ok /\ returned.field = Custom(35, <<EQUALS, SOH>>)

(***************************************************************************)
(* message/field/mod.rs: field.tag(), field.value(), field.encode().       *)
(***************************************************************************)
\* the sequence numbers of the MsgSeqNum fields
SeqNumArgs ==
    {U64(0), U64(7), U64(10), U64(100), U64(65536), U64(123456789),
     u64_add(U64(2147483647), U64(1)), U64_MAX}

\* every variant, with every tag of TagArgs and every short byte string
FieldValues ==
    {MsgSeqNum(n) : n \in SeqNumArgs}
    \cup {SenderCompID(v) : v \in Strings(ValueAlphabet, MaxValueLen)}
    \cup {SendingTime(v) : v \in Strings(ValueAlphabet, MaxValueLen)}
    \cup {TargetCompID(v) : v \in Strings(ValueAlphabet, MaxValueLen)}
    \cup {Custom(t, v) : t \in TagArgs, v \in Strings(ValueAlphabet, MaxValueLen)}

InitFieldMethods ==
    /\ pc = "Calling"
    /\ InitIdle
    /\ \E fn \in {"Field::tag", "Field::value", "Field::encode"} :
         \E f \in FieldValues : invoked = [fn |-> fn, field |-> f]

FieldTag ==
    /\ pc = "Calling"
    /\ invoked.fn = "Field::tag"
    /\ returned' = field_tag(invoked.field)
    /\ pc' = "Called"
    /\ UNCHANGED <<decode_state, invoked, digest, calls>>

FieldValue ==
    /\ pc = "Calling"
    /\ invoked.fn = "Field::value"
    /\ returned' = field_value(invoked.field)
    /\ pc' = "Called"
    /\ UNCHANGED <<decode_state, invoked, digest, calls>>

FieldEncode ==
    /\ pc = "Calling"
    /\ invoked.fn = "Field::encode"
    /\ returned' = field_encode(invoked.field)
    /\ pc' = "Called"
    /\ UNCHANGED <<decode_state, invoked, digest, calls>>

FieldMethodsNext == FieldTag \/ FieldValue \/ FieldEncode

SpecFieldMethods == InitFieldMethods /\ [][FieldMethodsNext]_vars

\* text is the decimal form of n, without sign and without leading zeros
IsDecimalOf(text, n) ==
    /\ IsDecimal(text)
    /\ Len(text) = 1 \/ Head(text) # ZERO
    /\ DecimalValue(text) = n

\* the tag a field stands for: fixed for the typed variants, stored in Custom
TagOfVariant(f) ==
    CASE f.variant = "MsgSeqNum" -> 34
      [] f.variant = "SenderCompID" -> 49
      [] f.variant = "SendingTime" -> 52
      [] f.variant = "TargetCompID" -> 56
      [] f.variant = "Custom" -> f.tag

\* the same for a number of 64 bits, which is held by its digits
IsDecimal64Of(text, n) ==
    /\ IsDecimal64(text)
    /\ Len(text) = 1 \/ Head(text) # ZERO
    /\ DecimalDigits(text) = n

\* text is the serialized value of the field
IsValueOf(text, f) ==
    IF f.variant = "MsgSeqNum" THEN IsDecimal64Of(text, f.num) ELSE text = f.value

\* C21: field serialization. For every Field f, f.encode() is the decimal digits
\* of f.tag(), then '=', then f.value(), with no SOH after them; tag() is 34, 49,
\* 52, 56 for the typed variants and the stored tag for Custom; value() is the
\* stored bytes, and the decimal ASCII form of the number for MsgSeqNum.
C21_FieldSerialization ==
    Called =>
      /\ invoked.fn = "Field::tag" => returned = TagOfVariant(invoked.field)
      /\ invoked.fn = "Field::value" => IsValueOf(returned, invoked.field)
      /\ invoked.fn = "Field::encode" =>
           LET eq == FirstAt(returned, EQUALS, 0)
           IN /\ eq < Len(returned)
              /\ IsDecimalOf(Slice(returned, 0, eq), TagOfVariant(invoked.field))
              /\ IsValueOf(Slice(returned, eq + 1, Len(returned)), invoked.field)

\* C21 witness: a Custom field with the tag 65535 and the value "=7" was encoded
\* to 65535==7
C21_Witness ==
    /\ Called /\ invoked.fn = "Field::encode"
    /\ invoked.field = Custom(65535, <<EQUALS, 55>>)
    /\ returned = <<54, 53, 53, 51, 53, EQUALS, EQUALS, 55>>

\* C22: field tag range. Every Field that Field::try_new constructs, for any
\* tag argument, maps to a numeric tag in 1..65535: the tag 0 never occurs.
C22_FieldTagRange ==
    (Called /\ invoked.fn = "Field::try_new" /\ returned.ok)
      => field_tag(returned.field) \in 1..U16_MAX

\* the fields try_new makes of the wire fields from the n-th on, the checksum
\* fields and the pieces that are no tag=value left out
RECURSIVE ConvertedFrom(_, _)
ConvertedFrom(fields, n) ==
    IF n > Len(fields) THEN <<>>
    ELSE IF WireTag(fields[n]) < 0 \/ WireTag(fields[n]) = Checksum_tag
    THEN ConvertedFrom(fields, n + 1)
    ELSE <<try_new(WireTag(fields[n]), ValueText(fields[n])).field>>
         \o ConvertedFrom(fields, n + 1)

\* C23: decode preserves wire order. The body of a Message returned by decode is
\* exactly the sequence of the non-checksum fields that follow the 35 field on
\* the wire, in wire order, each converted by Field::try_new from its tag and
\* value: no field is reordered, dropped, duplicated or added.
C23_WireOrder ==
    (Returned /\ result.kind = "Ok")
        => result.message.body.fields = ConvertedFrom(WireFields(bytes), 4)

\* the least index from which every byte up to index `to` (exclusive) is a digit
RECURSIVE DigitsBack(_, _)
DigitsBack(input, to) ==
    IF to > 0 /\ is_ascii_digit(input[to]) THEN DigitsBack(input, to - 1) ELSE to

\* the index of the first byte of the field that tag() and value() have just
\* lexed, leaving the cursor at cur and returning the value val: the value ends
\* at the SOH before cur, or at cur when the input ended without one, the '='
\* stands before the value and the tag digits before the '='
LexedFieldStart(input, cur, val) ==
    LET value_end == IF cur > 0 /\ input[cur] = SOH THEN cur - 1 ELSE cur
    IN DigitsBack(input, value_end - Len(val) - 1)

\* C24: checksum-field position. Whenever decode handles a tag-10 field in the
\* field loop, the index it uses as the end of the measured body and of the
\* checksummed prefix (cursor_before_checksum) equals the input index of the
\* first byte of that checksum field: with the tag written 10 or 010, a value of
\* any length, with or without a trailing SOH, and whatever bytes follow it.
C24_ChecksumFieldPosition ==
    pc = "ExpectChecksum" =>
        LET look == lexer_tag(bytes, cursor)
            before == cursor_before_checksum_of(look.cursor, value)
        IN ~look.ok => before = LexedFieldStart(bytes, cursor, value)

\* C25: ConsumeFields exit. The field loop exits normally only when no further
\* tag can be lexed because the end of the input was reached: a tag that fails
\* to lex for another reason (an unexpected byte, a missing '=', malformed or
\* oversized tag digits) gives an error, so decode returns a Message only when
\* the whole input was consumed.
C25_ConsumeFieldsExit ==
    /\ (pc = "ConsumeFields" /\ ~lexer_tag(bytes, cursor).ok)
         => cursor = Len(bytes)
    /\ (Returned /\ result.kind = "Ok") => cursor = Len(bytes)

(***************************************************************************)
(* decoder/decode.rs: the Lexer on its own.  bytes is its input, cursor    *)
(* its cursor; calls logs each call with the cursor it started from, and   *)
(* returned is the result of the last call.                                *)
(***************************************************************************)
MaxLexLen == 4
MaxLexCalls == 3

LexAlphabet == {SOH, EQUALS, 48, 54, 120}

\* tags at and beyond the end of u16, with leading zeros, followed by '=', by
\* another byte, or by nothing
LexTagTexts ==
    {<<54, 53, 53, 51, 53>>, <<54, 53, 53, 51, 54>>, <<57, 57, 57, 57, 57>>,
     <<48, 48, 54, 53, 53, 51, 53>>, <<48, 48, 54, 53, 53, 51, 54>>}
LexTagEnds == {<<>>, <<EQUALS>>, <<120>>, <<SOH>>, <<EQUALS, 120, SOH, 55>>}

LexInputs ==
    Strings(LexAlphabet, MaxLexLen)
    \cup {t \o e : t \in LexTagTexts, e \in LexTagEnds}

\* Lexer::from(bytes): the cursor at 0
InitLexer ==
    /\ pc = "Lexing"
    /\ message = NoMessage
    /\ bytes \in LexInputs
    /\ builder = NoBuilder
    /\ trace = <<>>
    /\ InitLocals
    /\ invoked = [fn |-> "Lexer::from", input |-> bytes]
    /\ returned = NoReturn
    /\ digest = Digest_default
    /\ calls = <<>>

\* lexer.tag()
LexerTag ==
    /\ pc = "Lexing"
    /\ Len(calls) < MaxLexCalls
    /\ returned' = lexer_tag(bytes, cursor)
    /\ cursor' = lexer_tag(bytes, cursor).cursor
    /\ calls' = Append(calls, [method |-> "tag", cursor |-> cursor])
    /\ UNCHANGED <<pc, message, bytes, builder, decode_locals, result, trace,
                   invoked, digest>>

\* lexer.value()
LexerValue ==
    /\ pc = "Lexing"
    /\ Len(calls) < MaxLexCalls
    /\ returned' = lexer_value(bytes, cursor)
    /\ cursor' = lexer_value(bytes, cursor).cursor
    /\ calls' = Append(calls, [method |-> "value", cursor |-> cursor])
    /\ UNCHANGED <<pc, message, bytes, builder, decode_locals, result, trace,
                   invoked, digest>>

LexerNext == LexerTag \/ LexerValue

SpecLexer == InitLexer /\ [][LexerNext]_vars

\* the last call of the lexer was `method`
LastCall(method) ==
    pc = "Lexing" /\ calls # <<>> /\ calls[Len(calls)].method = method
\* the cursor the last call started from
LastFrom == calls[Len(calls)].cursor

\* the index of the first byte at or after from that is no ASCII digit
DigitsEnd(input, from) ==
    IF \E i \in from..(Len(input) - 1) : ~is_ascii_digit(input[i + 1])
    THEN CHOOSE i \in from..(Len(input) - 1) :
             /\ ~is_ascii_digit(input[i + 1])
             /\ \A j \in from..(i - 1) : is_ascii_digit(input[j + 1])
    ELSE Len(input)

\* C26: lexer tag with no digits. When the byte at the cursor is '=' (no digit
\* before it), Lexer::tag returns MalformedTag; every tag it returns with
\* success was written with one or more ASCII digits.
C26_TagWithoutDigits ==
    LastCall("tag") =>
      /\ (LastFrom < Len(bytes) /\ bytes[LastFrom + 1] = EQUALS)
           => (~returned.ok /\ returned.err = "MalformedTag")
      /\ returned.ok => DigitsEnd(bytes, LastFrom) > LastFrom

\* C27: lexer tag classification. Lexer::tag consumes the maximal run of ASCII
\* digits at the cursor; a next byte other than '=' gives Unexpected{expected:
\* '=', but_got: that byte}; the end of input before '=' gives EOI; digits that
\* denote a number above 65535 give MalformedTag; otherwise (one or more digits)
\* it returns their value as u16, with the cursor just after the '='.
C27_TagClassification ==
    LastCall("tag") =>
      LET end == DigitsEnd(bytes, LastFrom)
          digits == Slice(bytes, LastFrom, end)
      IN IF end = Len(bytes)
         THEN ~returned.ok /\ returned.err = "EOI"
         ELSE IF bytes[end + 1] # EQUALS
         THEN /\ ~returned.ok /\ returned.err = "Unexpected"
              /\ returned.but_got = bytes[end + 1]
         ELSE IF digits # <<>> /\ DecimalValue(digits) > U16_MAX
         THEN ~returned.ok /\ returned.err = "MalformedTag"
         ELSE digits # <<>> =>
                /\ returned.ok /\ returned.tag = DecimalValue(digits)
                /\ cursor = end + 1

\* C27 witness: tag() has met 0065536 followed by 'x' and reported the 'x', not
\* the size of the number
C27_Witness ==
    /\ LastCall("tag") /\ LastFrom = 0
    /\ bytes = <<48, 48, 54, 53, 53, 51, 54, 120>>
    /\ returned.err = "Unexpected" /\ returned.but_got = 120

\* C28: lexer value. Lexer::value never fails; it returns the bytes from the
\* cursor up to (not including) the next SOH or the end of input, so the span
\* holds no SOH; afterwards the cursor is just past that SOH if there was one,
\* and at the end of input otherwise.
C28_LexerValue ==
    LastCall("value") =>
      LET end == FirstAt(bytes, SOH, LastFrom)
      IN /\ returned.ok
         /\ returned.value = Slice(bytes, LastFrom, end)
         /\ \A i \in 1..Len(returned.value) : returned.value[i] # SOH
         /\ cursor = IF end < Len(bytes) THEN end + 1 ELSE Len(bytes)

\* C28 witness: value() has returned a span that runs to the end of an input
\* without SOH, after a tag
C28_Witness ==
    /\ LastCall("value") /\ LastFrom > 0
    /\ returned.ok /\ returned.value # <<>>
    /\ cursor = Len(bytes) /\ bytes[Len(bytes)] # SOH

\* C29: lexer cursor invariant. Across any sequence of tag() and value() calls,
\* successful or failing, the cursor never decreases and stays within
\* 0..length of the input; the input bytes are never modified.
C29_CursorInvariant ==
    pc = "Lexing" =>
      /\ cursor >= 0 /\ cursor <= Len(bytes)
      /\ bytes = invoked.input
      /\ \A i \in 1..Len(calls) :
           calls[i].cursor <= (IF i < Len(calls) THEN calls[i + 1].cursor
                               ELSE cursor)

\* C29 witness: a tag() that failed at the end of the input after a value() that
\* had moved the cursor there
C29_Witness ==
    /\ LastCall("tag") /\ Len(calls) = MaxLexCalls
    /\ ~returned.ok /\ returned.err = "EOI"
    /\ LastFrom = Len(bytes) /\ calls[1].cursor < LastFrom

\* the k-th wire field is a 34 field whose value is no decimal of a u64, and the
\* body fields before it are well-formed
BadSeqNumAt(input, k) ==
    LET fields == WireFields(input)
    IN /\ k \in 4..Len(fields)
       /\ WireTag(fields[k]) = 34
       /\ ~IsDecimal64(ValueText(fields[k]))
       /\ \A i \in 4..(k - 1) : BodyFieldWellFormed(fields[i])

\* C30: body conversion failures surface immediately. After a well-formed
\* header, a 34 field whose value is no decimal of a u64 makes decode return
\* BadValue at that field, whatever the body length, the checksum and the
\* fields after it are; the fields 49, 52, 56 and every other tag never cause a
\* conversion failure: a BadValue met in the body comes from a 34 field.
C30_BodyConversionFailure ==
    (Returned /\ HeaderWellFormed(bytes)) =>
      /\ (\E k \in 4..Len(WireFields(bytes)) : BadSeqNumAt(bytes, k))
           => (result.kind = "BadValue"
                 /\ trace[Len(trace)] \in {"ExpectFirstBodyField", "ConsumeFields"})
      /\ (result.kind = "BadValue"
            /\ trace[Len(trace)] \in {"ExpectFirstBodyField", "ConsumeFields"})
           => \E k \in 4..Len(WireFields(bytes)) :
                 /\ WireTag(WireFields(bytes)[k]) = 34
                 /\ ~IsDecimal64(ValueText(WireFields(bytes)[k]))

\* the checksum field's value is the text of an unsigned 8-bit decimal
ChecksumParses(input) ==
    /\ IsDigits(ValueText(ChecksumField(input)))
    /\ IsDecimal(ValueText(ChecksumField(input)))
    /\ ChecksumValue(input) <= U8_MAX

\* C31: order of trailer checks. When the checksum field is reached (after a
\* well-formed header and one or more well-formed body fields), decode checks in
\* this order: (1) a field that follows gives UnexpectedChecksum; with the
\* checksum field last, (2) a declared body length other than the measured one
\* gives BodyLength, (3) a checksum value that is no unsigned 8-bit decimal gives
\* BadValue, (4) a checksum other than the sum of the bytes before the field
\* gives ChecksumMismatch. So an input with a wrong body length and a wrong or
\* malformed checksum reports BodyLength.
C31_TrailerCheckOrder ==
    (Returned /\ WellFormedUpToChecksum(bytes, 1)) =>
      /\ FieldFollowsChecksum(bytes) => result.kind = "UnexpectedChecksum"
      /\ ChecksumIsLast(bytes) =>
           IF DeclaredLength(bytes) # MeasuredLength(bytes)
           THEN result.kind = "BodyLength"
           ELSE IF ~ChecksumParses(bytes) THEN result.kind = "BadValue"
           ELSE IF ChecksumValue(bytes) # SumBefore(bytes, ChecksumStart(bytes))
           THEN result.kind = "ChecksumMismatch"
           ELSE result.kind = "Ok"

(***************************************************************************)
(* Round trip of a Message with a bare header: Message::builder, with_field *)
(* for each body field, build, encode, and decode on the bytes.             *)
(***************************************************************************)
MaxRoundTripFields == 2

RoundTripTags == {0, 1, 8, 34, 35, 49, 65535}
RoundTripValues == {<<>>, <<48, 55>>, <<EQUALS>>, <<120>>}

\* the fields Field::try_new makes of these tags and values, and the largest
\* sequence number
RoundTripFields ==
    {try_new(a[1], a[2]).field :
        a \in {u \in RoundTripTags \X RoundTripValues : try_new(u[1], u[2]).ok}}
    \cup {MsgSeqNum(U64_MAX)}

\* builder.with_field(f) for each field f in turn
RECURSIVE with_fields(_, _)
with_fields(b, fields) ==
    IF fields = <<>> THEN b
    ELSE with_fields(with_field(b, Head(fields)), Tail(fields))

\* the with_field calls that gave the fields
RECURSIVE WithFieldCalls(_)
WithFieldCalls(fields) ==
    IF fields = <<>> THEN <<>>
    ELSE <<[method |-> "with_field", field |-> Head(fields)]>>
         \o WithFieldCalls(Tail(fields))

\* Message::builder(FIX44, t).with_field(f1)....build(): one or more fields, as
\* only a builder that was given a field has build()
InitRoundTrip ==
    /\ pc = "Built"
    /\ bytes = <<>>
    /\ builder = NoBuilder
    /\ trace = <<>>
    /\ InitLocals
    /\ returned = NoReturn
    /\ digest = Digest_default
    /\ \E t \in TypeArgs :
         \E fields \in UNION {[1..k -> RoundTripFields] : k \in 1..MaxRoundTripFields} :
           /\ message = build(with_fields(Message_builder("FIX44", t), fields))
           /\ invoked = Invoked("Message::builder", "FIX44", t)
           /\ calls = WithFieldCalls(fields)

RoundTripNext ==
    \/ Encode
    \/ ExpectVersion
    \/ ExpectLength
    \/ ExpectType
    \/ ExpectFirstBodyField
    \/ ConsumeFields
    \/ ExpectChecksum
    \/ Done

SpecRoundTrip == InitRoundTrip /\ [][RoundTripNext]_vars

\* no optional header field, and body fields with a tag other than 10 and a
\* value without SOH
BareAndPlain(m) ==
    /\ m.header.fields = <<>>
    /\ \A i \in 1..Len(m.body.fields) :
         /\ field_tag(m.body.fields[i]) # Checksum_tag
         /\ \A j \in 1..Len(field_value(m.body.fields[i])) :
              field_value(m.body.fields[i])[j] # SOH

\* C32: restricted round trip. For every Message built with no optional header
\* field and with body fields that are each the result of a successful
\* Field::try_new(tag, value), with a tag other than 10 and a value free of SOH,
\* decode(encode(m)) succeeds and returns the same version, message type and
\* body field sequence.
C32_RestrictedRoundTrip ==
    (Returned /\ message # NoMessage /\ BareAndPlain(message)) =>
      /\ result.kind = "Ok"
      /\ result.message.header.begin_string = message.header.begin_string
      /\ result.message.header.msg_type = message.header.msg_type
      /\ result.message.body.fields = message.body.fields

\* C32 witness: the message with the body 34=07 (held as the number 7, written
\* 34=7) and 65535== has come back from decode as it was built
C32_Witness ==
    /\ Returned /\ result.kind = "Ok"
    /\ message.header.fields = <<>>
    /\ message.body.fields = <<MsgSeqNum(U64(7)), Custom(65535, <<EQUALS>>)>>
    /\ result.message.body.fields = message.body.fields

\* C33: decoded header is always bare. Every Message returned by decode has an
\* empty sequence of optional header fields and a body of one or more fields;
\* the fields after 35 are placed in the body, those that were encoded as
\* optional header fields included: the body decoded from an encoded Message is
\* its optional header fields followed by its body fields.
C33_DecodedHeaderBare ==
    (Returned /\ result.kind = "Ok") =>
      /\ result.message.header.fields = <<>>
      /\ Len(result.message.body.fields) >= 1
      /\ message # NoMessage
           => result.message.body.fields
                = message.header.fields \o message.body.fields

\* C33 witness: a Message built with an optional header field and a body field
\* was encoded and decoded, and both fields are in the body of the result
C33_Witness ==
    /\ Returned /\ result.kind = "Ok"
    /\ message.header.fields = <<SenderCompID(<<83>>)>>
    /\ message.body.fields = <<MsgSeqNum(U64(7))>>
    /\ result.message.header.fields = <<>>
    /\ result.message.body.fields = <<SenderCompID(<<83>>), MsgSeqNum(U64(7))>>

(***************************************************************************)
(* decode run to its end: the call and the decoder's steps alone.           *)
(***************************************************************************)
\* every form of one of the three header fields, the other two right, before the
\* body 1=x| and a right trailer
HeaderFormInputs ==
    {LET pre == Prefix(c[1], c[2], c[3], c[4], Wire(<<49>>, <<120>>, TRUE))
     IN pre \o Wire(<<49, 48>>, SumText(pre, <<49, 48>>, "exact"), TRUE) :
        c \in (FirstFieldTexts \X {<<57>>} \X {"exact"}
                  \X {Wire(<<51, 53>>, <<65>>, TRUE)})
              \cup ({Wire(<<56>>, FIX44_BYTES, TRUE)} \X {<<57>>, <<56>>} \X LenKinds
                      \X {Wire(<<51, 53>>, <<65>>, TRUE)})
              \cup ({Wire(<<56>>, FIX44_BYTES, TRUE)} \X {<<57>>} \X {"exact"}
                      \X TypeFieldTexts)}

\* a right header and the body 1=0|, with a right or a short declared length, a
\* checksum field written 10 or 010, right, wrong, empty or no number, with or
\* without its SOH, and every form of the bytes after it
TrailerInputs ==
    {LET pre == Prefix(Wire(<<56>>, FIX44_BYTES, TRUE), <<57>>, c[1],
                       Wire(<<51, 53>>, <<65>>, TRUE), Wire(<<49>>, <<48>>, TRUE))
     IN pre \o Wire(c[2], SumText(pre, c[2], c[3]), c[4]) \o c[5] :
        c \in {"exact", "less"} \X ChecksumTagTexts
              \X {"exact", "zero", "alpha", "empty"} \X BOOLEAN \X TailTexts}

\* a right header before a body of no, one or two fields, with no checksum field
BodyInputs ==
    {Prefix(Wire(<<56>>, FIX44_BYTES, TRUE), <<57>>, "exact",
            Wire(<<51, 53>>, <<65>>, TRUE), Concat(fs)) :
        fs \in UNION {[1..k -> BodyFieldTexts] : k \in 0..2}}

LiveInputs ==
    HeaderFormInputs \cup TrailerInputs \cup BodyInputs \cup ForgedInputs

\* before decode is called: nothing read, no input yet
InitDecodeLive ==
    /\ pc = "Calling"
    /\ InitIdle
    /\ invoked = Invoked("decode", "None", "None")

\* decode(bytes): the lexer is made on the input, with its cursor at 0
DecodeCall ==
    /\ pc = "Calling"
    /\ bytes' \in LiveInputs
    /\ pc' = "ExpectVersion"
    /\ trace' = <<"ExpectVersion">>
    /\ UNCHANGED <<message, cursor, builder, decode_locals, result>>
    /\ UNCHANGED <<invoked, returned, digest, calls>>

DecodeNext ==
    \/ DecodeCall
    \/ ExpectVersion
    \/ ExpectLength
    \/ ExpectType
    \/ ExpectFirstBodyField
    \/ ConsumeFields
    \/ ExpectChecksum
    \/ Done

\* decode is sequential code: once called it takes its next step until it has
\* returned.  This is WF_vars(DecodeNext) with ENABLED <<DecodeNext>>_vars
\* written as the states it holds in: a step is possible, and changes pc, the
\* cursor or the builder, exactly when decode was called or could be called
\* and has not returned
DecodeFair == []<>(pc = "Returned") \/ []<><<DecodeNext>>_vars

SpecDecodeLive == InitDecodeLive /\ [][DecodeNext]_vars /\ DecodeFair

\* C34: decode terminates. For every finite input decode reaches a result, Ok
\* or Err, after finitely many steps; every turn of the field loop that
\* continues has advanced the lexer cursor by one byte or more, the cursor
\* never goes back, and the loop stops once the cursor is at the end of input.
C34_DecodeTerminates ==
    /\ (pc = "ExpectVersion") ~> Returned
    /\ [][/\ cursor' >= cursor
          /\ (pc = "ConsumeFields" /\ pc' \in {"ConsumeFields", "ExpectChecksum"})
               => cursor' > cursor
          /\ (pc = "ConsumeFields" /\ cursor = Len(bytes)) => pc' = "Done"]_vars

\* C34 witness: decode has returned after the field loop went through the
\* checksum branch, went on, stored a further field and stopped at the end of
\* the input
C34_Witness ==
    /\ Returned /\ result.kind = "Ok"
    /\ \E i \in 1..Len(trace) : trace[i] = "ExpectChecksum"
    /\ trace[Len(trace)] = "Done"
    /\ Len(result.message.body.fields) = 2
    /\ cursor = Len(bytes)

====
